---- MODULE Spec2Model ----
(***************************************************************************)
(* MonitorNap: per-monitor dimming engine (monitor_controller.py) and the  *)
(* awake-mode / pause coordinator of the main window (monitornap.py).      *)
(*                                                                         *)
(* Units.  Time is in milliseconds (time.time() * 1000).  Overlay opacity  *)
(* is an integer number of 1/OpScale parts, so 1.0 is OpScale and the 0.01 *)
(* epsilon of the overlay fade is OpScale / 100.  Hardware brightness is   *)
(* the DDC/CI luminance 0..100.  None is the Python None of an integer     *)
(* field.                                                                  *)
(***************************************************************************)
EXTENDS Integers, Sequences, FiniteSets, Bags, TLC

VARIABLES
    now,          \* time.time(), ms
    config,       \* the global configuration dictionary (shared by reference)
    ctls,         \* the MonitorController objects, by monitor_index
    hw,           \* the DDC/CI displays returned by monitorcontrol.get_monitors()
    win,          \* MainWindow: awake checkbox and the two pause timers
    tick_due,     \* controllers whose check_timer timeout awaits the event loop
    clicks,       \* number of user actions so far
    last_op,      \* the handler the event loop ran last (history)
    geom,         \* the refresh_geometry calls it made, and what they did
    hotkey,       \* the keyboard thread: its position in toggle_awake_mode
    sensor        \* per controller, the last QCursor.pos() read (history)

vars == <<now, config, ctls, hw, win, tick_due, clicks, last_op, geom, hotkey,
          sensor>>

-----------------------------------------------------------------------------
(* Bounds of the model *)

MaxTime == 40000          \* the clock of the engine stops here
MaxPauseTime == 100000    \* the clock of the pause coordinator stops here
MaxClicks == 2            \* cap on the number of user actions in a run
MaxSensorTime == 750      \* the span of time of the activity sensor's calls

(* Program constants *)

None == -1
OpScale == 600
DefaultBrightness == 100
MsPerMinute == 60000
CursorCacheMs == 500
WindowCacheMs == 1000
RestoreMaxSteps == 3
IdentifyOpacity == 360    \* 0.6 * OpScale
DefaultWidth == 800
DefaultHeight == 600

OpEps == OpScale \div 100

\* The period of the check timers in the model.  check_timer runs every 2 s;
\* the model lets the timers fire every third of a minute, so that a pause of
\* whole minutes ends on a timer instant and few instants suffice.
TimeStep == MsPerMinute \div 3

Min(a, b) == IF a <= b THEN a ELSE b
Max(a, b) == IF a >= b THEN a ELSE b
Abs(a) == IF a >= 0 THEN a ELSE 0 - a

\* Python int(x) of the rational n / d, d > 0: truncation toward zero
TruncDiv(n, d) == IF n >= 0 THEN n \div d ELSE 0 - ((0 - n) \div d)

\* Python round(n / d), d > 0, n >= 0: round half to even
RoundDiv(n, d) ==
    LET q == n \div d
        r == n % d
    IN  IF 2 * r > d \/ (2 * r = d /\ q % 2 = 1) THEN q + 1 ELSE q

-----------------------------------------------------------------------------
(* The environment: displays known to the OS and to DDC/CI *)

\* screeninfo.get_monitors(): one display of 1920 x 1080 at the origin
Screens == << [x |-> 0, y |-> 0, width |-> 1920, height |-> 1080] >>

\* screeninfo.get_monitors() after a display change: as before, a second
\* display attached, the first display at another resolution as well
ScreenChoices ==
    { Screens,
      << Screens[1], [x |-> 1920, y |-> 0, width |-> 1280, height |-> 1024] >>,
      << [x |-> 0, y |-> 0, width |-> 2560, height |-> 1440],
         [x |-> 2560, y |-> 0, width |-> 1280, height |-> 1024] >> }

\* _update_geometry_from_system: the rectangle of display idx of the
\* enumeration screens, or the fixed default
GeometryOf(screens, idx) ==
    IF 0 <= idx /\ idx < Len(screens)
    THEN [left |-> screens[idx + 1].x, top |-> screens[idx + 1].y,
          width |-> screens[idx + 1].width, height |-> screens[idx + 1].height]
    ELSE [left |-> 0, top |-> 0, width |-> DefaultWidth, height |-> DefaultHeight]

\* the rectangle of display idx at start, or the fixed default
GeometryFromSystem(idx) == GeometryOf(Screens, idx)

\* the brightness of the DDC/CI display while no monitor is dimmed: the
\* display starts at this brightness and nothing but the program changes it
UndimmedBrightness == 100

\* OverlayWindow.__init__ / init_window followed by hide()
NewOverlay(rect) ==
    [visible |-> FALSE, opacity |-> 0, rect |-> rect]

\* a pending QTimer.singleShot callback of the overlay channel
StepCb(current, target, step_opacity, delay) ==
    [kind |-> "step", current |-> current, target |-> target,
     step_opacity |-> step_opacity, delay |-> delay]

\* the identify() fade-out, lambda: self.fade_overlay(0.0)
IdentifyCb(duration_ms) ==
    [kind |-> "identify_out", current |-> 0, target |-> 0,
     step_opacity |-> 0, delay |-> duration_ms]

-----------------------------------------------------------------------------
(* MonitorController.  Every operator takes and returns st = [c, hw]: the  *)
(* controller object and the DDC/CI displays it talks to.                  *)

\* __init__ that clamps an out-of-range ddc_index to the last display
MutNewControllerClampsIndex(mcfg, t, hw0, read_ok) ==
    LET ddc == Max(0, Min(mcfg.ddc_index, Len(hw0.lum) - 1))
        rect == GeometryFromSystem(mcfg.display_index)
    IN  [cfg |-> mcfg,
         is_dimmed |-> FALSE,
         restore_in_progress |-> FALSE,
         last_active |-> t,
         monitor_index |-> mcfg.monitor_index,
         display_index |-> mcfg.display_index,
         ddc_index |-> mcfg.ddc_index,
         monitorcontrol_monitor |-> ddc,
         original_brightness |-> IF read_ok THEN hw0.lum[ddc + 1] ELSE None,
         left |-> rect.left, top |-> rect.top,
         width |-> rect.width, height |-> rect.height,
         overlay |-> NewOverlay(rect),
         overlay_cbs |-> EmptyBag,
         fade_timer_active |-> FALSE,
         fade_interval |-> 0,
         current_fade_step |-> 0,
         fade_steps |-> 0,
         fade_start |-> 0,
         fade_target |-> 0,
         last_cursor_check |-> 0,
         last_window_check |-> 0]

\* MonitorController.__init__ with init_monitor
NewController(mcfg, t, hw0, read_ok) ==
    LET ddc == mcfg.ddc_index
        inrange == 0 <= ddc /\ ddc < Len(hw0.lum)
        rect == GeometryFromSystem(mcfg.display_index)
    IN  [cfg |-> mcfg,
         is_dimmed |-> FALSE,
         restore_in_progress |-> FALSE,
         last_active |-> t,
         monitor_index |-> mcfg.monitor_index,
         display_index |-> mcfg.display_index,
         ddc_index |-> ddc,
         monitorcontrol_monitor |-> IF inrange THEN ddc ELSE None,
         original_brightness |->
             IF inrange /\ read_ok THEN hw0.lum[ddc + 1] ELSE None,
         left |-> rect.left, top |-> rect.top,
         width |-> rect.width, height |-> rect.height,
         overlay |-> NewOverlay(rect),
         overlay_cbs |-> EmptyBag,
         fade_timer_active |-> FALSE,
         fade_interval |-> 0,
         current_fade_step |-> 0,
         fade_steps |-> 0,
         fade_start |-> 0,
         fade_target |-> 0,
         last_cursor_check |-> 0,
         last_window_check |-> 0]

\* the stored rectangle (left, top, width, height) of controller c
StoredRect(c) ==
    [left |-> c.left, top |-> c.top, width |-> c.width, height |-> c.height]

\* refresh_geometry against the enumeration screens.  With a changed
\* rectangle it calls overlay.setGeometry(rect) and then overlay.update();
\* OverlayWindow defines no update(), so the call raises AttributeError before
\* the log entry.  The result carries the controller and a record of the call.
RefreshGeometry(c, screens) ==
    LET prev == StoredRect(c)
        rect == GeometryOf(screens, c.display_index)
        c1 == [c EXCEPT !.left = rect.left, !.top = rect.top,
                        !.width = rect.width, !.height = rect.height]
    IN  IF rect # prev
        THEN [c |-> [c1 EXCEPT !.overlay.rect = rect],
              call |-> [m |-> c.monitor_index, changed |-> TRUE,
                        bounds_updates |-> 1, log_entries |-> 0,
                        raised |-> TRUE]]
        ELSE [c |-> c1,
              call |-> [m |-> c.monitor_index, changed |-> FALSE,
                        bounds_updates |-> 0, log_entries |-> 0,
                        raised |-> FALSE]]

\* set_indices: re-resolve the DDC/CI handle and the baseline, then
\* refresh_geometry, whose exception propagates
SetIndices(st, display_index, ddc_index, read_ok, screens) ==
    LET ddc == Max(0, ddc_index)
        inrange == 0 <= ddc /\ ddc < Len(st.hw.lum)
        c1 == [st.c EXCEPT
                  !.display_index = Max(0, display_index),
                  !.ddc_index = ddc,
                  !.monitorcontrol_monitor = IF inrange THEN ddc ELSE None,
                  !.original_brightness =
                      IF inrange /\ read_ok THEN st.hw.lum[ddc + 1] ELSE None]
        r == RefreshGeometry(c1, screens)
    IN  [c |-> r.c, hw |-> st.hw, call |-> r.call]

\* set_brightness: one DDC/CI write, whose failure is caught and logged
SetBrightness(st, value, write_ok) ==
    LET m == st.c.monitorcontrol_monitor
    IN  IF m = None THEN st
        ELSE [st EXCEPT !.hw.written[m + 1] = value,
                        !.hw.lum[m + 1] = IF write_ok THEN value ELSE @]

\* _fade_overlay_step
FadeOverlayStep(c, current, target, step_opacity, delay) ==
    LET raw == current + step_opacity
        next_val == IF (step_opacity > 0 /\ raw >= target)
                       \/ (step_opacity < 0 /\ raw <= target)
                    THEN target ELSE raw
        c1 == [c EXCEPT !.overlay.opacity = next_val]
    IN  IF Abs(next_val - target) > OpEps
        THEN [c1 EXCEPT !.overlay_cbs =
                  @ (+) SetToBag({StepCb(next_val, target, step_opacity, delay)})]
        ELSE IF Abs(target) < OpEps
             THEN [c1 EXCEPT !.overlay.visible = FALSE]
             ELSE c1

\* fade_overlay that fades toward normal as slowly as toward dimmed
MutFadeOverlaySlowWake(c, g, target_opacity) ==
    LET current == c.overlay.opacity
        steps0 == IF g.overlay_fade_steps <= 0 THEN 1 ELSE g.overlay_fade_steps
        wake == FALSE
        steps == IF wake THEN Min(steps0, RestoreMaxSteps) ELSE steps0
        \* total_time * 1000 as the rational tnum / 100
        tnum == IF wake THEN Max(10 * 100, g.overlay_fade_time * 5)
                ELSE g.overlay_fade_time * 100
        step_opacity == TruncDiv(target_opacity - current, steps)
        step_delay_ms == Max(1, tnum \div (100 * steps))
    IN  FadeOverlayStep(c, current, target_opacity, step_opacity, step_delay_ms)

\* fade_overlay
FadeOverlay(c, g, target_opacity) ==
    LET current == c.overlay.opacity
        steps0 == IF g.overlay_fade_steps <= 0 THEN 1 ELSE g.overlay_fade_steps
        wake == target_opacity < current
        steps == IF wake THEN Min(steps0, RestoreMaxSteps) ELSE steps0
        \* total_time * 1000 as the rational tnum / 100
        tnum == IF wake THEN Max(10 * 100, g.overlay_fade_time * 5)
                ELSE g.overlay_fade_time * 100
        step_opacity == TruncDiv(target_opacity - current, steps)
        step_delay_ms == Max(1, tnum \div (100 * steps))
    IN  FadeOverlayStep(c, current, target_opacity, step_opacity, step_delay_ms)

\* fade_hardware that takes hardware_dimming_level as it is configured
MutFadeHardwareNoLevelClamp(st, g, down, read_ok) ==
    LET c == st.c
        m == c.monitorcontrol_monitor
        start == IF m # None /\ read_ok THEN st.hw.lum[m + 1]
                 ELSE IF c.original_brightness # None THEN c.original_brightness
                 ELSE DefaultBrightness
        level == c.cfg.hardware_dimming_level
        target == IF down
                  THEN Max(0, Min(100, RoundDiv(start * (100 - level), 100)))
                  ELSE IF c.original_brightness # None
                       THEN c.original_brightness ELSE start
        steps0 == IF down THEN g.overlay_fade_steps
                  ELSE Min(g.overlay_fade_steps, RestoreMaxSteps)
        steps == IF steps0 <= 0 THEN 1 ELSE steps0
        tnum == IF down THEN g.overlay_fade_time * 100
                ELSE Max(10 * 100, g.overlay_fade_time * 5)
    IN  IF c.restore_in_progress THEN st
        ELSE [st EXCEPT !.c.restore_in_progress = TRUE,
                        !.c.current_fade_step = 0,
                        !.c.fade_steps = steps,
                        !.c.fade_start = start,
                        !.c.fade_target = target,
                        !.c.fade_interval = tnum \div (100 * steps),
                        !.c.fade_timer_active = TRUE]

\* fade_hardware
FadeHardware(st, g, down, read_ok) ==
    LET c == st.c
        m == c.monitorcontrol_monitor
        start == IF m # None /\ read_ok THEN st.hw.lum[m + 1]
                 ELSE IF c.original_brightness # None THEN c.original_brightness
                 ELSE DefaultBrightness
        level == Max(0, Min(100, c.cfg.hardware_dimming_level))
        target == IF down
                  THEN Max(0, Min(100, RoundDiv(start * (100 - level), 100)))
                  ELSE IF c.original_brightness # None
                       THEN c.original_brightness ELSE start
        steps0 == IF down THEN g.overlay_fade_steps
                  ELSE Min(g.overlay_fade_steps, RestoreMaxSteps)
        steps == IF steps0 <= 0 THEN 1 ELSE steps0
        tnum == IF down THEN g.overlay_fade_time * 100
                ELSE Max(10 * 100, g.overlay_fade_time * 5)
    IN  IF c.restore_in_progress THEN st
        ELSE [st EXCEPT !.c.restore_in_progress = TRUE,
                        !.c.current_fade_step = 0,
                        !.c.fade_steps = steps,
                        !.c.fade_start = start,
                        !.c.fade_target = target,
                        !.c.fade_interval = tnum \div (100 * steps),
                        !.c.fade_timer_active = TRUE]

\* fade_step_size * fade_steps
FadeDelta(c) == c.fade_target - c.fade_start

\* _do_fade in which a failed write ends the handler after the step count
MutDoFadeFailureAborts(st, write_ok) ==
    LET c == st.c
        k == c.current_fade_step + 1
        num == c.fade_start * c.fade_steps + FadeDelta(c) * k
        last == (FadeDelta(c) > 0 /\ num >= c.fade_target * c.fade_steps)
                \/ (FadeDelta(c) < 0 /\ num <= c.fade_target * c.fade_steps)
                \/ k >= c.fade_steps
        st1 == [st EXCEPT !.c.current_fade_step = k]
    IN  IF ~write_ok
        THEN SetBrightness(st1, IF last THEN c.fade_target
                                ELSE TruncDiv(num, c.fade_steps), write_ok)
        ELSE IF last
        THEN [SetBrightness(st1, c.fade_target, write_ok)
                 EXCEPT !.c.fade_timer_active = FALSE,
                        !.c.restore_in_progress = FALSE]
        ELSE SetBrightness(st1, TruncDiv(num, c.fade_steps), write_ok)

\* _do_fade that takes the step before the last for the last
MutDoFadeEarlyStop(st, write_ok) ==
    LET c == st.c
        k == c.current_fade_step + 1
        num == c.fade_start * c.fade_steps + FadeDelta(c) * k
        last == (FadeDelta(c) > 0 /\ num >= c.fade_target * c.fade_steps)
                \/ (FadeDelta(c) < 0 /\ num <= c.fade_target * c.fade_steps)
                \/ k >= c.fade_steps - 1
        st1 == [st EXCEPT !.c.current_fade_step = k]
    IN  IF last
        THEN [SetBrightness(st1, c.fade_target, write_ok)
                 EXCEPT !.c.fade_timer_active = FALSE,
                        !.c.restore_in_progress = FALSE]
        ELSE SetBrightness(st1, TruncDiv(num, c.fade_steps), write_ok)

\* _do_fade: one timeout of fade_timer
DoFade(st, write_ok) ==
    LET c == st.c
        k == c.current_fade_step + 1
        \* new_value as the rational num / fade_steps
        num == c.fade_start * c.fade_steps + FadeDelta(c) * k
        last == (FadeDelta(c) > 0 /\ num >= c.fade_target * c.fade_steps)
                \/ (FadeDelta(c) < 0 /\ num <= c.fade_target * c.fade_steps)
                \/ k >= c.fade_steps
        st1 == [st EXCEPT !.c.current_fade_step = k]
    IN  IF last
        THEN [SetBrightness(st1, c.fade_target, write_ok)
                 EXCEPT !.c.fade_timer_active = FALSE,
                        !.c.restore_in_progress = FALSE]
        ELSE SetBrightness(st1, TruncDiv(num, c.fade_steps), write_ok)

\* immediate_restore that does not write the original brightness back
MutImmediateRestoreNoWrite(st, write_ok) ==
    [st EXCEPT !.c.fade_timer_active = FALSE,
               !.c.overlay.visible = FALSE,
               !.c.overlay.opacity = 0,
               !.c.is_dimmed = FALSE]

\* immediate_restore that resets the opacity but leaves the overlay shown
MutImmediateRestoreNoHide(st, write_ok) ==
    LET c == st.c
        st1 == [st EXCEPT !.c.fade_timer_active = FALSE]
        st2 == IF c.monitorcontrol_monitor # None /\ c.original_brightness # None
               THEN SetBrightness(st1, c.original_brightness, write_ok)
               ELSE st1
    IN  [st2 EXCEPT !.c.overlay.opacity = 0,
                    !.c.is_dimmed = FALSE]

\* immediate_restore that leaves a running fade timer running
MutImmediateRestoreKeepsTimer(st, write_ok) ==
    LET c == st.c
        st2 == IF c.monitorcontrol_monitor # None /\ c.original_brightness # None
               THEN SetBrightness(st, c.original_brightness, write_ok)
               ELSE st
    IN  [st2 EXCEPT !.c.overlay.visible = FALSE,
                    !.c.overlay.opacity = 0,
                    !.c.is_dimmed = FALSE]

\* immediate_restore
ImmediateRestore(st, write_ok) ==
    LET c == st.c
        st1 == [st EXCEPT !.c.fade_timer_active = FALSE]
        st2 == IF c.monitorcontrol_monitor # None /\ c.original_brightness # None
               THEN SetBrightness(st1, c.original_brightness, write_ok)
               ELSE st1
    IN  [st2 EXCEPT !.c.overlay.visible = FALSE,
                    !.c.overlay.opacity = 0,
                    !.c.is_dimmed = FALSE]

\* restore_dim
RestoreDim(st, write_ok) ==
    ImmediateRestore([st EXCEPT !.c.is_dimmed = FALSE], write_ok)

\* dim without the early return of an already dimmed monitor
MutDimNoGuard(st, g, read_ok) ==
    LET c == st.c
        c1 == [c EXCEPT !.is_dimmed = TRUE]
        c2 == IF c.cfg.enable_software_dimming
              THEN FadeOverlay([c1 EXCEPT !.overlay.visible = TRUE], g,
                               Max(0, Min(OpScale, c.cfg.software_dimming_level)))
              ELSE c1
        st2 == [st EXCEPT !.c = c2]
    IN  IF c.cfg.enable_hardware_dimming /\ c.original_brightness # None
        THEN FadeHardware(st2, g, TRUE, read_ok)
        ELSE st2

\* dim that fades the overlay to software_dimming_level as it is configured
MutDimNoClamp(st, g, read_ok) ==
    LET c == st.c
        c1 == [c EXCEPT !.is_dimmed = TRUE]
        c2 == IF c.cfg.enable_software_dimming
              THEN FadeOverlay([c1 EXCEPT !.overlay.visible = TRUE], g,
                               c.cfg.software_dimming_level)
              ELSE c1
        st2 == [st EXCEPT !.c = c2]
    IN  IF c.is_dimmed THEN st
        ELSE IF c.cfg.enable_hardware_dimming /\ c.original_brightness # None
             THEN FadeHardware(st2, g, TRUE, read_ok)
             ELSE st2

\* dim
Dim(st, g, read_ok) ==
    LET c == st.c
        c1 == [c EXCEPT !.is_dimmed = TRUE]
        c2 == IF c.cfg.enable_software_dimming
              THEN FadeOverlay([c1 EXCEPT !.overlay.visible = TRUE], g,
                               Max(0, Min(OpScale, c.cfg.software_dimming_level)))
              ELSE c1
        st2 == [st EXCEPT !.c = c2]
    IN  IF c.is_dimmed THEN st
        ELSE IF c.cfg.enable_hardware_dimming /\ c.original_brightness # None
             THEN FadeHardware(st2, g, TRUE, read_ok)
             ELSE st2


\* is_monitor_active that counts the right and the bottom edge as on the monitor
MutIsMonitorActiveClosedEdges(c, t, cursor, fg) ==
    LET sample == t - c.last_cursor_check > CursorCacheMs
        inside == /\ c.left <= cursor.x /\ cursor.x <= c.left + c.width
                  /\ c.top <= cursor.y /\ cursor.y <= c.top + c.height
        c1 == IF sample THEN [c EXCEPT !.last_cursor_check = t] ELSE c
        wsample == fg.kind # "na" /\ t - c.last_window_check > WindowCacheMs
        inter_w == Max(0, Min(c.left + c.width, fg.right) - Max(c.left, fg.left))
        inter_h == Max(0, Min(c.top + c.height, fg.bottom) - Max(c.top, fg.top))
        mon_area == Max(1, c.width * c.height)
        covers == 100 * (inter_w * inter_h) >= 95 * mon_area
    IN  IF sample /\ inside
        THEN [active |-> TRUE, c |-> c, cursor_read |-> sample]
        ELSE IF wsample /\ fg.kind = "rect" /\ covers
             THEN [active |-> TRUE, c |-> c1, cursor_read |-> sample]
        ELSE IF wsample /\ fg.kind \in {"rect", "none"}
             THEN [active |-> FALSE, c |-> [c1 EXCEPT !.last_window_check = t],
                   cursor_read |-> sample]
        ELSE [active |-> FALSE, c |-> c1, cursor_read |-> sample]

\* is_monitor_active: cursor is QCursor.pos(); fg is the foreground window
\* lookup: "na" (os.name is not 'nt'), "fail" (the lookup raised), "none"
\* (no visible foreground window) or "rect" with the window rectangle.  The
\* result tells whether the call read QCursor.pos().
IsMonitorActive(c, t, cursor, fg) ==
    LET sample == t - c.last_cursor_check > CursorCacheMs
        inside == /\ c.left <= cursor.x /\ cursor.x < c.left + c.width
                  /\ c.top <= cursor.y /\ cursor.y < c.top + c.height
        c1 == IF sample THEN [c EXCEPT !.last_cursor_check = t] ELSE c
        wsample == fg.kind # "na" /\ t - c.last_window_check > WindowCacheMs
        inter_w == Max(0, Min(c.left + c.width, fg.right) - Max(c.left, fg.left))
        inter_h == Max(0, Min(c.top + c.height, fg.bottom) - Max(c.top, fg.top))
        mon_area == Max(1, c.width * c.height)
        covers == 100 * (inter_w * inter_h) >= 95 * mon_area
    IN  IF sample /\ inside
        THEN [active |-> TRUE, c |-> c, cursor_read |-> sample]
        ELSE IF wsample /\ fg.kind = "rect" /\ covers
             THEN [active |-> TRUE, c |-> c1, cursor_read |-> sample]
        ELSE IF wsample /\ fg.kind \in {"rect", "none"}
             THEN [active |-> FALSE, c |-> [c1 EXCEPT !.last_window_check = t],
                   cursor_read |-> sample]
        ELSE [active |-> FALSE, c |-> c1, cursor_read |-> sample]

\* check_inactivity without the awake_mode test
MutCheckInactivityNoGate(st, g, t, cursor, fg, io) ==
    LET c == st.c
        r == IsMonitorActive(c, t, cursor, fg)
        st1 == [st EXCEPT !.c = r.c]
        st2 == [st1 EXCEPT !.c.last_active = t]
    IN  IF r.active
        THEN IF c.is_dimmed THEN RestoreDim(st2, io.write_ok) ELSE st2
        ELSE IF t - c.last_active >= g.inactivity_limit * 1000 /\ ~c.is_dimmed
             THEN Dim(st1, g, io.read_ok)
             ELSE st1

\* check_inactivity that returns under awake_mode without restoring
MutCheckInactivityNoRestore(st, g, t, cursor, fg, io) ==
    LET c == st.c
        r == IsMonitorActive(c, t, cursor, fg)
        st1 == [st EXCEPT !.c = r.c]
        st2 == [st1 EXCEPT !.c.last_active = t]
    IN  IF g.awake_mode THEN st
        ELSE IF r.active
             THEN IF c.is_dimmed THEN RestoreDim(st2, io.write_ok) ELSE st2
             ELSE IF t - c.last_active >= g.inactivity_limit * 1000
                     /\ ~c.is_dimmed
                  THEN Dim(st1, g, io.read_ok)
                  ELSE st1

\* check_inactivity that lets a running dim finish before it restores
MutCheckInactivityWaitsForFade(st, g, t, cursor, fg, io) ==
    LET c == st.c
        r == IsMonitorActive(c, t, cursor, fg)
        st1 == [st EXCEPT !.c = r.c]
        st2 == [st1 EXCEPT !.c.last_active = t]
    IN  IF g.awake_mode
        THEN IF c.is_dimmed THEN RestoreDim(st, io.write_ok) ELSE st
        ELSE IF r.active
             THEN IF c.is_dimmed /\ ~c.fade_timer_active
                  THEN RestoreDim(st2, io.write_ok) ELSE st2
             ELSE IF t - c.last_active >= g.inactivity_limit * 1000
                     /\ ~c.is_dimmed
                  THEN Dim(st1, g, io.read_ok)
                  ELSE st1

\* check_inactivity: the timeout handler of check_timer
CheckInactivity(st, g, t, cursor, fg, io) ==
    LET c == st.c
        r == IsMonitorActive(c, t, cursor, fg)
        st1 == [st EXCEPT !.c = r.c]
        st2 == [st1 EXCEPT !.c.last_active = t]
    IN  IF g.awake_mode
        THEN IF c.is_dimmed THEN RestoreDim(st, io.write_ok) ELSE st
        ELSE IF r.active
             THEN IF c.is_dimmed THEN RestoreDim(st2, io.write_ok) ELSE st2
             ELSE IF t - c.last_active >= g.inactivity_limit * 1000
                     /\ ~c.is_dimmed
                  THEN Dim(st1, g, io.read_ok)
                  ELSE st1

\* disable_hw_dimming
DisableHwDimming(st, write_ok) ==
    LET c == st.c
        st1 == IF c.is_dimmed /\ c.original_brightness # None
               THEN SetBrightness(st, c.original_brightness, write_ok)
               ELSE st
    IN  [st1 EXCEPT !.c.cfg.enable_hardware_dimming = FALSE]

\* identify: flash the overlay, then fade it out after duration_ms
Identify(c, g, duration_ms, opacity) ==
    LET c1 == FadeOverlay([c EXCEPT !.overlay.visible = TRUE], g,
                          Max(0, Min(OpScale, opacity)))
    IN  [c1 EXCEPT !.overlay_cbs = @ (+) SetToBag({IdentifyCb(duration_ms)})]

\* a QTimer.singleShot callback of the overlay channel comes due
RunOverlayCb(c, g, cb) ==
    LET c1 == [c EXCEPT !.overlay_cbs = @ (-) SetToBag({cb})]
    IN  IF cb.kind = "step"
        THEN FadeOverlayStep(c1, cb.current, cb.target, cb.step_opacity, cb.delay)
        ELSE FadeOverlay(c1, g, 0)

-----------------------------------------------------------------------------
(* MainWindow and the application.  Every operator takes and returns       *)
(* app = [config, win, ctls, hw]; t is time.time() at the call.            *)

\* QTimer.stop() on _pause_timer
StopPauseTimer(w) ==
    [w EXCEPT !.pause_timer_active = FALSE, !.pause_deadline = 0]

\* on_awake_toggled without the reset of last_active when turning off
MutOnAwakeToggledNoReset(app, state, t) ==
    LET w1 == IF ~state /\ app.win.pause_timer_active
              THEN StopPauseTimer(app.win) ELSE app.win
        w2 == IF ~state THEN [w1 EXCEPT !.pause_update_active = FALSE] ELSE w1
    IN  [app EXCEPT
            !.win = [w2 EXCEPT !.awake_checkbox = state],
            !.config.awake_mode = state]

\* on_awake_toggled without the stop of a pending pause timer
MutOnAwakeToggledNoStop(app, state, t) ==
    LET w2 == IF ~state THEN [app.win EXCEPT !.pause_update_active = FALSE]
              ELSE app.win
    IN  [app EXCEPT
            !.win = [w2 EXCEPT !.awake_checkbox = state],
            !.config.awake_mode = state,
            !.ctls = IF state THEN @
                     ELSE [i \in DOMAIN @ |-> [@[i] EXCEPT !.last_active = t]]]

\* on_awake_toggled
OnAwakeToggled(app, state, t) ==
    LET w1 == IF ~state /\ app.win.pause_timer_active
              THEN StopPauseTimer(app.win) ELSE app.win
        w2 == IF ~state THEN [w1 EXCEPT !.pause_update_active = FALSE] ELSE w1
    IN  [app EXCEPT
            !.win = [w2 EXCEPT !.awake_checkbox = state],
            !.config.awake_mode = state,
            !.ctls = IF state THEN @
                     ELSE [i \in DOMAIN @ |-> [@[i] EXCEPT !.last_active = t]]]

\* toggle_awake_mode: tray action and global hotkey
ToggleAwakeMode(app, t) ==
    LET w1 == IF app.win.pause_timer_active
              THEN StopPauseTimer(app.win) ELSE app.win
        w2 == [w1 EXCEPT !.pause_update_active = FALSE]
    IN  OnAwakeToggled([app EXCEPT !.win = w2], ~app.config.awake_mode, t)

\* self._pause_timer = QTimer(self): the attribute is bound to a new timer and
\* the timer it referred to (w0 at the call, w1 after the stop) stays a child
\* of the window, with the deadline it had at the call
ReplacedPauseTimer(w0, w1) ==
    IF w0.has_pause_timer
    THEN {[active |-> w1.pause_timer_active, deadline |-> w0.pause_deadline]}
    ELSE {}

\* pause_dimming that starts the timer without turning awake mode on
MutPauseDimmingNoAwake(app, minutes, t) ==
    LET w1 == IF app.win.pause_timer_active
              THEN StopPauseTimer(app.win) ELSE app.win
        app1 == [app EXCEPT !.win = w1]
    IN  [app1 EXCEPT !.win.old_pause_timers = @ \cup ReplacedPauseTimer(app.win, w1),
                     !.win.has_pause_timer = TRUE,
                     !.win.pause_timer_active = TRUE,
                     !.win.pause_deadline = t + Max(1, minutes) * MsPerMinute,
                     !.win.pause_update_active = TRUE]

\* pause_dimming that leaves the earlier pause timer running
MutPauseDimmingNoStop(app, minutes, t) ==
    LET app2 == IF ~app.config.awake_mode
                THEN OnAwakeToggled(app, TRUE, t) ELSE app
    IN  [app2 EXCEPT !.win.old_pause_timers = @ \cup ReplacedPauseTimer(app.win, app.win),
                     !.win.has_pause_timer = TRUE,
                     !.win.pause_timer_active = TRUE,
                     !.win.pause_deadline = t + Max(1, minutes) * MsPerMinute,
                     !.win.pause_update_active = TRUE]

\* pause_dimming
PauseDimming(app, minutes, t) ==
    LET w1 == IF app.win.pause_timer_active
              THEN StopPauseTimer(app.win) ELSE app.win
        app1 == [app EXCEPT !.win = w1]
        app2 == IF ~app1.config.awake_mode
                THEN OnAwakeToggled(app1, TRUE, t) ELSE app1
    IN  [app2 EXCEPT !.win.old_pause_timers = @ \cup ReplacedPauseTimer(app.win, w1),
                     !.win.has_pause_timer = TRUE,
                     !.win.pause_timer_active = TRUE,
                     !.win.pause_deadline = t + Max(1, minutes) * MsPerMinute,
                     !.win.pause_update_active = TRUE]

\* _pause_timeout that leaves awake mode as it is
MutPauseTimeoutKeepsAwake(app, t) ==
    [app EXCEPT !.win.pause_update_active = FALSE]

\* _pause_timeout: the timeout handler of _pause_timer
PauseTimeout(app, t) ==
    OnAwakeToggled([app EXCEPT !.win.pause_update_active = FALSE], FALSE, t)

\* _pause_timer.timeout: the timer is single-shot, so it is inactive when the
\* handler runs
PauseTimerTimeout(app, t) ==
    PauseTimeout([app EXCEPT !.win = StopPauseTimer(app.win)], t)

\* the pause timers that are running: the one self._pause_timer refers to
\* (cur) and the ones it referred to earlier
PendingPauseTimers(w) ==
    (IF w.pause_timer_active
     THEN {[cur |-> TRUE, deadline |-> w.pause_deadline]} ELSE {})
    \cup {[cur |-> FALSE, deadline |-> tm.deadline] :
            tm \in {x \in w.old_pause_timers : x.active}}

\* timeout of the pause timer tm: lambda: self._pause_timeout()
FirePauseTimer(app, tm, t) ==
    IF tm.cur
    THEN PauseTimerTimeout(app, t)
    ELSE PauseTimeout(
             [app EXCEPT !.win.old_pause_timers =
                  (@ \ {[active |-> TRUE, deadline |-> tm.deadline]})
                  \cup {[active |-> FALSE, deadline |-> tm.deadline]}], t)

\* _update_pause_status: timeout handler of _pause_update_timer
UpdatePauseStatus(app, t) ==
    IF app.win.pause_timer_active
       /\ (app.win.pause_deadline - t) \div MsPerMinute <= 0
    THEN [app EXCEPT !.win.pause_update_active = FALSE]
    ELSE app

\* resume_now
ResumeNow(app, t) ==
    LET w1 == IF app.win.pause_timer_active
              THEN StopPauseTimer(app.win) ELSE app.win
        app1 == [app EXCEPT !.win = [w1 EXCEPT !.pause_update_active = FALSE]]
    IN  IF app1.config.awake_mode THEN OnAwakeToggled(app1, FALSE, t) ELSE app1

\* the user clicks the awake checkbox: toggled(state) -> on_awake_toggled
AwakeCheckboxClicked(app, t) ==
    LET state == ~app.win.awake_checkbox
    IN  OnAwakeToggled([app EXCEPT !.win.awake_checkbox = state], state, t)

RECURSIVE NapLoop(_, _, _)
\* nap_now: for ctl in self.controllers: ctl.dim()
NapLoop(app, i, read_ok) ==
    IF i > Len(app.ctls) THEN app
    ELSE LET st == Dim([c |-> app.ctls[i], hw |-> app.hw], app.config, read_ok)
         IN  NapLoop([app EXCEPT !.ctls[i] = st.c, !.hw = st.hw], i + 1, read_ok)

\* nap_now that does nothing while awake mode is on
MutNapNowAwakeGate(app, read_ok) ==
    IF app.config.awake_mode THEN app ELSE NapLoop(app, 1, read_ok)

NapNow(app, read_ok) == NapLoop(app, 1, read_ok)

RECURSIVE ApplyLoop(_, _, _, _)
\* on_apply_clicked: for c in self.controllers: restore_dim, reset last_active
ApplyLoop(app, i, t, write_ok) ==
    IF i > Len(app.ctls) THEN app
    ELSE LET st == RestoreDim([c |-> app.ctls[i], hw |-> app.hw], write_ok)
         IN  ApplyLoop([app EXCEPT !.ctls[i] = [st.c EXCEPT !.last_active = t],
                                   !.hw = st.hw], i + 1, t, write_ok)

OnApplyClicked(app, new_inactivity, t, write_ok) ==
    ApplyLoop([app EXCEPT !.config.inactivity_limit = new_inactivity], 1, t, write_ok)

\* on_hw_toggled: the "Enable HW Dimming" checkbox of monitor m
OnHwToggled(app, m, state, write_ok) ==
    IF ~state
    THEN LET st == DisableHwDimming([c |-> app.ctls[m], hw |-> app.hw], write_ok)
         IN  [app EXCEPT !.ctls[m] = st.c, !.hw = st.hw]
    ELSE [app EXCEPT !.ctls[m].cfg.enable_hardware_dimming = TRUE]

\* on_display_selected that goes on to refresh the geometry of every controller
MutOnDisplaySelectedRefreshesAll(app, m, new_disp, read_ok, screens) ==
    LET c0 == [app.ctls[m] EXCEPT !.cfg.display_index = new_disp]
        r == SetIndices([c |-> c0, hw |-> app.hw], new_disp, c0.ddc_index,
                        read_ok, screens)
    IN  [app EXCEPT !.ctls = [k \in DOMAIN app.ctls |->
                                 IF k = m THEN r.c
                                 ELSE RefreshGeometry(app.ctls[k], screens).c],
                    !.geom = [screens |-> screens, calls |-> <<r.call>>]]

\* on_display_selected: the display spin box of monitor m changed; an
\* exception of set_indices is caught and logged
OnDisplaySelected(app, m, new_disp, read_ok, screens) ==
    LET c0 == [app.ctls[m] EXCEPT !.cfg.display_index = new_disp]
        r == SetIndices([c |-> c0, hw |-> app.hw], new_disp, c0.ddc_index,
                        read_ok, screens)
    IN  [app EXCEPT !.ctls[m] = r.c,
                    !.geom = [screens |-> screens, calls |-> <<r.call>>]]

RECURSIVE RefreshLoop(_, _, _)
\* refresh_all_geometries: for ctl in self.controllers: ctl.refresh_geometry()
\* inside one try; the first exception ends the loop and is logged
RefreshLoop(app, i, screens) ==
    IF i > Len(app.ctls) THEN app
    ELSE LET r == RefreshGeometry(app.ctls[i], screens)
             app1 == [app EXCEPT !.ctls[i] = r.c,
                                 !.geom.calls = Append(@, r.call)]
         IN  IF r.call.raised THEN app1 ELSE RefreshLoop(app1, i + 1, screens)

RefreshAllGeometries(app, screens) ==
    RefreshLoop([app EXCEPT !.geom.screens = screens], 1, screens)

RECURSIVE CleanupLoop(_, _, _)
\* cleanup: for ctl in self.controllers: ctl.immediate_restore()
CleanupLoop(app, i, write_ok) ==
    IF i > Len(app.ctls) THEN app
    ELSE LET st == ImmediateRestore([c |-> app.ctls[i], hw |-> app.hw], write_ok)
         IN  CleanupLoop([app EXCEPT !.ctls[i] = st.c, !.hw = st.hw], i + 1, write_ok)

\* MonitorNapApplication.cleanup, called by on_exit, TrayIcon.exit_app and the
\* atexit hook
Cleanup(app, write_ok) == CleanupLoop(app, 1, write_ok)

-----------------------------------------------------------------------------
(* Inputs *)

\* QCursor.pos(): on the display, and on its right edge
CursorInputs == { [x |-> 0, y |-> 0], [x |-> 1920, y |-> 0] }

\* the foreground window lookup
FgInputs ==
    { [kind |-> "na", left |-> 0, top |-> 0, right |-> 0, bottom |-> 0],
      [kind |-> "fail", left |-> 0, top |-> 0, right |-> 0, bottom |-> 0],
      [kind |-> "none", left |-> 0, top |-> 0, right |-> 0, bottom |-> 0],
      [kind |-> "rect", left |-> 0, top |-> 0, right |-> 1920, bottom |-> 1080] }

\* outcomes of the DDC/CI calls of one handler: TRUE is success
Reliable == {TRUE}
Unreliable == BOOLEAN

\* the foreground lookups of a platform without win32gui, plus a covering window
FgEngine == {fg \in FgInputs : fg.kind \in {"na", "rect"}}

InactivityChoices == {10, 30}
FadeStepsChoices == {2}
PauseMinutes == {0, 1}

\* a monitor entry of the configuration, as auto-created from enumeration
MonitorCfg(i, ddc, ehw, esw) ==
    [monitor_index |-> i, display_index |-> i, ddc_index |-> ddc,
     enable_hardware_dimming |-> ehw, enable_software_dimming |-> esw,
     hardware_dimming_level |-> 30, software_dimming_level |-> 300]

\* the keyboard thread is not inside the hotkey callback
HotkeyIdle == [pc |-> "idle", new_state |-> FALSE]

\* no QCursor.pos() read so far.  A record of sensor holds the time of the
\* last read, the position read, the rectangle it was tested against and the
\* outcome of the test; and for the latest call of is_monitor_active whether
\* it read the position and what it returned.
NoSample ==
    [sample_t |-> None, cursor |-> [x |-> 0, y |-> 0],
     rect |-> [left |-> 0, top |-> 0, width |-> 0, height |-> 0],
     result |-> FALSE, sampled |-> FALSE, returned |-> FALSE]

\* a handler that makes no refresh_geometry call
NoGeom == [screens |-> << >>, calls |-> << >>]

App == [config |-> config, win |-> win, ctls |-> ctls, hw |-> hw,
        geom |-> NoGeom, sensor |-> sensor]

\* the process has not ended: no handler runs after cleanup
Running == last_op.op # "cleanup"

Commit(app, op, m) ==
    /\ Running
    /\ config' = app.config
    /\ win' = app.win
    /\ ctls' = app.ctls
    /\ hw' = app.hw
    /\ geom' = app.geom
    /\ sensor' = app.sensor
    /\ last_op' = [op |-> op, m |-> m]

\* a handler that is not a user action
Handler(app, op, m) ==
    /\ Commit(app, op, m)
    /\ UNCHANGED <<now, clicks, hotkey>>

\* a handler started by the user: button, tray menu entry or hotkey
UserAction(app, op, m) ==
    /\ clicks < MaxClicks
    /\ clicks' = clicks + 1
    /\ Commit(app, op, m)
    /\ UNCHANGED <<now, tick_due, hotkey>>

-----------------------------------------------------------------------------
(* Actions: one per handler of the event loop *)

\* time passes until the check timers time out, once the event loop has run
\* the handlers that were due; a pause timer that is due fires first
Advance(limit) ==
    /\ Running
    /\ now + TimeStep <= limit
    /\ tick_due = {}
    /\ \A tm \in PendingPauseTimers(win) : tm.deadline > now
    /\ now' = now + TimeStep
    /\ tick_due' = DOMAIN ctls
    /\ last_op' = [op |-> "advance", m |-> 0]
    /\ geom' = NoGeom
    /\ UNCHANGED <<config, ctls, hw, win, clicks, hotkey, sensor>>

AdvanceEngine == Advance(MaxTime)

AdvancePause == Advance(MaxPauseTime)

\* check_timer.timeout of controller m
Tick(m, fgs, oks) ==
    /\ m \in tick_due
    /\ tick_due' = tick_due \ {m}
    /\ \E cursor \in CursorInputs, fg \in fgs,
          io \in [read_ok : oks, write_ok : oks] :
          LET st == CheckInactivity([c |-> ctls[m], hw |-> hw], config, now,
                                    cursor, fg, io)
          IN  Handler([App EXCEPT !.ctls[m] = st.c, !.hw = st.hw],
                      "check_inactivity", m)

\* fade_timer.timeout of controller m
FadeTimerFires(m, oks) ==
    /\ ctls[m].fade_timer_active
    /\ \E write_ok \in oks :
          LET st == DoFade([c |-> ctls[m], hw |-> hw], write_ok)
          IN  Handler([App EXCEPT !.ctls[m] = st.c, !.hw = st.hw], "_do_fade", m)
    /\ UNCHANGED tick_due

\* a single-shot callback of the overlay of controller m comes due
OverlayCbFires(m) ==
    /\ \E cb \in BagToSet(ctls[m].overlay_cbs) :
          Handler([App EXCEPT !.ctls[m] = RunOverlayCb(ctls[m], config, cb)],
                  cb.kind, m)
    /\ UNCHANGED tick_due

\* the Identify button of monitor m
IdentifyClicked(m) ==
    UserAction([App EXCEPT !.ctls[m] = Identify(ctls[m], config, 1000, IdentifyOpacity)],
               "identify", m)

\* tray "Toggle Awake Mode" or the global hotkey
ToggleAwakeClicked ==
    UserAction(ToggleAwakeMode(App, now), "toggle_awake_mode", 0)

\* the Awake Mode checkbox
CheckboxClicked ==
    UserAction(AwakeCheckboxClicked(App, now), "awake_checkbox", 0)

\* "Nap Now"
NapNowClicked(oks) ==
    \E read_ok \in oks : UserAction(NapNow(App, read_ok), "nap_now", 0)

\* "Apply"
ApplyClicked(oks) ==
    \E n \in InactivityChoices, write_ok \in oks :
        UserAction(OnApplyClicked(App, n, now, write_ok), "on_apply_clicked", 0)

\* "Pause Dimming" for a number of minutes, recorded in last_op.m
PauseClicked ==
    \E n \in PauseMinutes :
        UserAction(PauseDimming(App, n, now), "pause_dimming", n)

\* _pause_timer.timeout comes due
PauseTimerFires ==
    /\ \E tm \in PendingPauseTimers(win) :
          /\ now >= tm.deadline
          /\ Handler(FirePauseTimer(App, tm, now), "_pause_timeout", 0)
    /\ UNCHANGED tick_due

\* _pause_update_timer.timeout
PauseUpdateFires ==
    /\ win.pause_update_active
    /\ Handler(UpdatePauseStatus(App, now), "_update_pause_status", 0)
    /\ UNCHANGED tick_due

\* "Resume Now"
ResumeClicked ==
    UserAction(ResumeNow(App, now), "resume_now", 0)

\* The global hotkey: keyboard.add_hotkey runs toggle_awake_mode on the thread
\* of the keyboard library, so the event loop can run handlers between its
\* statements.  First the statements of toggle_awake_mode itself: stop the
\* pause timers, compute new_state.
HotkeyPressed ==
    /\ hotkey.pc = "idle"
    /\ clicks < MaxClicks
    /\ clicks' = clicks + 1
    /\ hotkey' = [pc |-> "on_awake_toggled", new_state |-> ~config.awake_mode]
    /\ LET w1 == IF win.pause_timer_active THEN StopPauseTimer(win) ELSE win
       IN  Commit([App EXCEPT !.win = [w1 EXCEPT !.pause_update_active = FALSE]],
                  "hotkey", 0)
    /\ UNCHANGED <<now, tick_due>>

\* on_awake_toggled(new_state) on the keyboard thread, up to the timer stops
HotkeyStopsTimers ==
    /\ hotkey.pc = "on_awake_toggled"
    /\ hotkey' = [hotkey EXCEPT !.pc = "set_state"]
    /\ LET w1 == IF ~hotkey.new_state /\ win.pause_timer_active
                 THEN StopPauseTimer(win) ELSE win
           w2 == IF ~hotkey.new_state
                 THEN [w1 EXCEPT !.pause_update_active = FALSE] ELSE w1
       IN  Commit([App EXCEPT !.win = w2], "hotkey", 0)
    /\ UNCHANGED <<now, tick_due, clicks>>

\* on_awake_toggled(new_state) on the keyboard thread: the assignment of
\* awake_mode and the update of the checkbox and of the status label
HotkeySetsState ==
    /\ hotkey.pc = "set_state"
    /\ hotkey' = IF hotkey.new_state THEN HotkeyIdle
                 ELSE [hotkey EXCEPT !.pc = "reset_activity"]
    /\ LET state == hotkey.new_state
       IN  Commit([App EXCEPT !.win.awake_checkbox = state,
                              !.config.awake_mode = state],
                  "hotkey", 0)
    /\ UNCHANGED <<now, tick_due, clicks>>

\* on_awake_toggled(False) on the keyboard thread: the loop that resets
\* last_active of every controller, to the end
HotkeyResetsActivity ==
    /\ hotkey.pc = "reset_activity"
    /\ hotkey' = HotkeyIdle
    /\ Commit([App EXCEPT
                  !.ctls = [i \in DOMAIN @ |-> [@[i] EXCEPT !.last_active = now]]],
              "hotkey", 0)
    /\ UNCHANGED <<now, tick_due, clicks>>

\* the "Enable HW Dimming" checkbox of monitor m is clicked
HwToggled(m, oks) ==
    \E write_ok \in oks :
        UserAction(OnHwToggled(App, m, ~ctls[m].cfg.enable_hardware_dimming,
                               write_ok),
                   "on_hw_toggled", m)

\* the display spin box of monitor m is set to another display while the OS
\* reports the enumeration screens
DisplaySelected(m, oks) ==
    \E new_disp \in 0 .. 1, read_ok \in oks, screens \in ScreenChoices :
        /\ new_disp # ctls[m].display_index
        /\ UserAction(OnDisplaySelected(App, m, new_disp, read_ok, screens),
                      "on_display_selected", m)

\* _geometry_timer.timeout or the debounced WM_DISPLAYCHANGE
GeometryTimerFires ==
    /\ \E screens \in ScreenChoices :
          Handler(RefreshAllGeometries(App, screens),
                  "refresh_all_geometries", 0)
    /\ UNCHANGED tick_due

\* Exit button, tray "Exit", or the atexit hook after the event loop has quit:
\* cleanup runs and the process ends
ExitApp(oks) ==
    /\ \E write_ok \in oks : Handler(Cleanup(App, write_ok), "cleanup", 0)
    /\ UNCHANGED tick_due

-----------------------------------------------------------------------------
(* Specifications *)

InitWin(awake) ==
    [awake_checkbox |-> awake, has_pause_timer |-> FALSE,
     pause_timer_active |-> FALSE, pause_deadline |-> 0,
     old_pause_timers |-> {},
     pause_update_active |-> FALSE]

\* The dimming engine of one monitor with a DDC/CI display at brightness 100.
\* Fades take 5 s, so that a fade is still running when the next check timer
\* or the fade-out of identify() comes due; the callbacks themselves are
\* untimed and fire in any order.
Init ==
    /\ now = TimeStep
    /\ hw = [lum |-> <<UndimmedBrightness>>, written |-> <<None>>]
    /\ config \in [awake_mode : {FALSE}, inactivity_limit : {10},
                   overlay_fade_steps : FadeStepsChoices,
                   overlay_fade_time : {5000}]
    /\ \E ehw \in BOOLEAN, esw \in BOOLEAN :
          /\ ehw \/ esw
          /\ ctls = << NewController(MonitorCfg(0, 0, ehw, esw), now, hw, TRUE) >>
    /\ win = InitWin(config.awake_mode)
    /\ tick_due = {}
    /\ clicks = 0
    /\ last_op = [op |-> "init", m |-> 0]
    /\ geom = NoGeom
    /\ hotkey = HotkeyIdle
    /\ sensor = [m \in DOMAIN ctls |-> NoSample]

Next ==
    \/ AdvanceEngine
    \/ \E m \in DOMAIN ctls : Tick(m, FgEngine, Reliable)
    \/ \E m \in DOMAIN ctls : FadeTimerFires(m, Reliable)
    \/ \E m \in DOMAIN ctls : OverlayCbFires(m)
    \/ \E m \in DOMAIN ctls : IdentifyClicked(m)
    \/ ToggleAwakeClicked
    \/ NapNowClicked(Reliable)
    \/ ApplyClicked(Reliable)
    \/ ExitApp(Reliable)

Spec == Init /\ [][Next]_vars

\* the pause coordinator with two monitors whose ddc_index is outside the
\* enumeration of the one DDC/CI display; overlay fades of one step
InitPause ==
    /\ now = TimeStep
    /\ hw = [lum |-> <<UndimmedBrightness>>, written |-> <<None>>]
    /\ config \in [awake_mode : BOOLEAN, inactivity_limit : {10},
                   overlay_fade_steps : {1}, overlay_fade_time : {500}]
    /\ ctls = << NewController(MonitorCfg(0, 99, TRUE, TRUE), now, hw, TRUE),
                 NewController(MonitorCfg(1, 1, TRUE, TRUE), now, hw, TRUE) >>
    /\ win = InitWin(config.awake_mode)
    /\ tick_due = {}
    /\ clicks = 0
    /\ last_op = [op |-> "init", m |-> 0]
    /\ geom = NoGeom
    /\ hotkey = HotkeyIdle
    /\ sensor = [m \in DOMAIN ctls |-> NoSample]

NextPause ==
    \/ AdvancePause
    \/ \E m \in DOMAIN ctls : Tick(m, FgEngine, Reliable)
    \/ ToggleAwakeClicked
    \/ CheckboxClicked
    \/ PauseClicked
    \/ PauseTimerFires
    \/ PauseUpdateFires
    \/ ResumeClicked

SpecPause == InitPause /\ [][NextPause]_vars

\* the geometry watcher and the display selection, at one instant, with a
\* monitor on the DDC/CI display and a configured second monitor whose
\* display and DDC/CI index are not enumerated at start
InitGeom ==
    /\ now = TimeStep
    /\ hw = [lum |-> <<UndimmedBrightness>>, written |-> <<None>>]
    /\ config = [awake_mode |-> FALSE, inactivity_limit |-> 10,
                 overlay_fade_steps |-> 2, overlay_fade_time |-> 5000]
    /\ ctls = << NewController(MonitorCfg(0, 0, TRUE, TRUE), now, hw, TRUE),
                 NewController(MonitorCfg(1, 99, TRUE, TRUE), now, hw, TRUE) >>
    /\ win = InitWin(config.awake_mode)
    /\ tick_due = {}
    /\ clicks = 0
    /\ last_op = [op |-> "init", m |-> 0]
    /\ geom = NoGeom
    /\ hotkey = HotkeyIdle
    /\ sensor = [m \in DOMAIN ctls |-> NoSample]

NextGeom ==
    \/ NapNowClicked(Reliable)
    \/ \E m \in DOMAIN ctls : FadeTimerFires(m, Reliable)
    \/ \E m \in DOMAIN ctls : OverlayCbFires(m)
    \/ \E m \in DOMAIN ctls : DisplaySelected(m, Reliable)
    \/ GeometryTimerFires

SpecGeom == InitGeom /\ [][NextGeom]_vars

\* the pause coordinator with the global hotkey registered
NextHotkey ==
    \/ AdvancePause
    \/ \E m \in DOMAIN ctls : Tick(m, FgEngine, Reliable)
    \/ PauseClicked
    \/ PauseTimerFires
    \/ PauseUpdateFires
    \/ HotkeyPressed
    \/ HotkeyStopsTimers
    \/ HotkeySetsState
    \/ HotkeyResetsActivity

SpecHotkey == InitPause /\ [][NextHotkey]_vars

\* the dimming engine of one monitor on a DDC/CI display whose reads and
\* writes can fail, the read of the baseline at start included
InitFail ==
    /\ now = TimeStep
    /\ hw = [lum |-> <<UndimmedBrightness>>, written |-> <<None>>]
    /\ config = [awake_mode |-> FALSE, inactivity_limit |-> 10,
                 overlay_fade_steps |-> 2, overlay_fade_time |-> 5000]
    /\ \E read_ok \in Unreliable :
          ctls = << NewController(MonitorCfg(0, 0, TRUE, TRUE), now, hw, read_ok) >>
    /\ win = InitWin(config.awake_mode)
    /\ tick_due = {}
    /\ clicks = 0
    /\ last_op = [op |-> "init", m |-> 0]
    /\ geom = NoGeom
    /\ hotkey = HotkeyIdle
    /\ sensor = [m \in DOMAIN ctls |-> NoSample]

NextFail ==
    \/ AdvanceEngine
    \/ \E m \in DOMAIN ctls : Tick(m, FgEngine, Unreliable)
    \/ NapNowClicked(Unreliable)
    \/ ApplyClicked(Unreliable)
    \/ \E m \in DOMAIN ctls : FadeTimerFires(m, Unreliable)
    \/ \E m \in DOMAIN ctls : OverlayCbFires(m)

SpecFail == InitFail /\ [][NextFail]_vars

\* Settings as the configuration file can hold them, in and out of range.
\* software_dimming_level: -0.5, 0.01, 0.5 and 1.5
SoftwareLevels == {0 - 300, 6, 300, 900}

\* hardware_dimming_level in percent
HardwareLevels == {0 - 10, 0, 30, 100, 150}

\* the brightness of the display at start
StartChoices == {0, 5, 50, 100}

\* overlay_fade_steps: below, at and above the cap of a wake fade
FadeStepsInputs == {1, 2, 4}

\* overlay_fade_steps of the hardware fades
HwFadeStepsInputs == {1, 2, 10}

\* overlay_fade_time in ms: 0.1 s, whose twentieth is below 0.01 s, and 5 s
FadeTimeInputs == {100, 5000}

\* The fades of one monitor for the overlay settings above: dim() from "Nap
\* Now", identify(), the fade timer and the overlay callbacks.  The step count
\* divides the overlay target, so that the step of the overlay fade is the
\* same rational in the model as in the program.
InitFade ==
    /\ now = TimeStep
    /\ hw = [lum |-> <<UndimmedBrightness>>, written |-> <<None>>]
    /\ config \in [awake_mode : {FALSE}, inactivity_limit : {10},
                   overlay_fade_steps : FadeStepsInputs,
                   overlay_fade_time : FadeTimeInputs]
    /\ \E sw \in SoftwareLevels :
          /\ Max(0, Min(OpScale, sw)) % config.overlay_fade_steps = 0
          /\ ctls = << NewController(
                          [MonitorCfg(0, 0, TRUE, TRUE) EXCEPT
                              !.software_dimming_level = sw],
                          now, hw, TRUE) >>
    /\ win = InitWin(config.awake_mode)
    /\ tick_due = {}
    /\ clicks = 0
    /\ last_op = [op |-> "init", m |-> 0]
    /\ geom = NoGeom
    /\ hotkey = HotkeyIdle
    /\ sensor = [m \in DOMAIN ctls |-> NoSample]

\* the Identify button of monitor m as the first user action of a run
IdentifyFirst(m) ==
    /\ clicks = 0
    /\ IdentifyClicked(m)

NextFade ==
    \/ NapNowClicked(Reliable)
    \/ \E m \in DOMAIN ctls : IdentifyFirst(m)
    \/ \E m \in DOMAIN ctls : FadeTimerFires(m, Reliable)
    \/ \E m \in DOMAIN ctls : OverlayCbFires(m)

SpecFade == InitFade /\ [][NextFade]_vars

\* The hardware fades of one monitor without software dimming, for the
\* hardware settings above and any brightness of the display at start; the
\* read of the brightness at the start of a fade can fail.
InitHwFade ==
    /\ now = TimeStep
    /\ \E b \in StartChoices : hw = [lum |-> <<b>>, written |-> <<None>>]
    /\ config \in [awake_mode : {FALSE}, inactivity_limit : {10},
                   overlay_fade_steps : HwFadeStepsInputs,
                   overlay_fade_time : {5000}]
    /\ \E lv \in HardwareLevels :
          ctls = << NewController(
                       [MonitorCfg(0, 0, TRUE, FALSE) EXCEPT
                           !.hardware_dimming_level = lv],
                       now, hw, TRUE) >>
    /\ win = InitWin(config.awake_mode)
    /\ tick_due = {}
    /\ clicks = 0
    /\ last_op = [op |-> "init", m |-> 0]
    /\ geom = NoGeom
    /\ hotkey = HotkeyIdle
    /\ sensor = [m \in DOMAIN ctls |-> NoSample]

NextHwFade ==
    \/ NapNowClicked(Unreliable)
    \/ ApplyClicked(Reliable)
    \/ \E m \in DOMAIN ctls : FadeTimerFires(m, Reliable)

SpecHwFade == InitHwFade /\ [][NextHwFade]_vars

\* QCursor.pos() on a display of 1920 x 1080 at the origin, on its right edge
\* (the left edge of a display of 1280 x 1024 beside it), on its bottom edge,
\* and on the right edge of the display beside it
CursorEdgeInputs ==
    { [x |-> 0, y |-> 0], [x |-> 1920, y |-> 0], [x |-> 0, y |-> 1080],
      [x |-> 3200, y |-> 0] }

\* the foreground lookup of a platform without win32gui
FgNa == CHOOSE fg \in FgInputs : fg.kind = "na"

\* the time between two calls of the activity sensor in the model
SensorStep == CursorCacheMs \div 2

\* time passes between two calls of is_monitor_active
SensorAdvance ==
    /\ Running
    /\ now + SensorStep <= TimeStep + MaxSensorTime
    /\ now' = now + SensorStep
    /\ last_op' = [op |-> "advance", m |-> 0]
    /\ geom' = NoGeom
    /\ UNCHANGED <<config, ctls, hw, win, tick_due, clicks, hotkey, sensor>>

\* one call of is_monitor_active on controller m, at any time and for any
\* position of the pointer
SensorCall(m) ==
    /\ \E cursor \in CursorEdgeInputs :
          LET r == IsMonitorActive(ctls[m], now, cursor, FgNa)
              log == IF r.cursor_read
                     THEN [sample_t |-> now, cursor |-> cursor,
                           rect |-> StoredRect(ctls[m]), result |-> r.active,
                           sampled |-> TRUE, returned |-> r.active]
                     ELSE [sensor[m] EXCEPT !.sampled = FALSE,
                                            !.returned = r.active]
          IN  Handler([App EXCEPT !.ctls[m] = r.c, !.sensor[m] = log],
                      "is_monitor_active", m)
    /\ UNCHANGED tick_due

\* the activity sensors of two monitors, the second on a display that is
\* attached after start, called at any time
InitSensor == InitGeom

\* the geometry watcher runs once, before the first call of the sensors
DisplayAttached ==
    /\ last_op.op = "init"
    /\ GeometryTimerFires

NextSensor ==
    \/ SensorAdvance
    \/ \E m \in DOMAIN ctls : SensorCall(m)
    \/ DisplayAttached

SpecSensor == InitSensor /\ [][NextSensor]_vars

\* the dimming engine of one monitor whose hardware dimming checkbox is
\* clicked while it runs
NextToggle ==
    \/ AdvanceEngine
    \/ \E m \in DOMAIN ctls : Tick(m, FgEngine, Reliable)
    \/ \E m \in DOMAIN ctls : FadeTimerFires(m, Reliable)
    \/ \E m \in DOMAIN ctls : OverlayCbFires(m)
    \/ NapNowClicked(Reliable)
    \/ \E m \in DOMAIN ctls : HwToggled(m, Reliable)

SpecToggle == Init /\ [][NextToggle]_vars

\* two monitors side by side on the dimming engine, as auto-created from the
\* enumeration: the first on the DDC/CI display, the second without one; the
\* display selection and the geometry watcher run beside the timers
InitTwo ==
    /\ now = TimeStep
    /\ hw = [lum |-> <<UndimmedBrightness>>, written |-> <<None>>]
    /\ config = [awake_mode |-> FALSE, inactivity_limit |-> 10,
                 overlay_fade_steps |-> 2, overlay_fade_time |-> 5000]
    /\ ctls = << NewController(MonitorCfg(0, 0, TRUE, TRUE), now, hw, TRUE),
                 NewController(MonitorCfg(1, 1, TRUE, TRUE), now, hw, TRUE) >>
    /\ win = InitWin(config.awake_mode)
    /\ tick_due = {}
    /\ clicks = 0
    /\ last_op = [op |-> "init", m |-> 0]
    /\ geom = NoGeom
    /\ hotkey = HotkeyIdle
    /\ sensor = [m \in DOMAIN ctls |-> NoSample]

NextTwo ==
    \/ AdvanceEngine
    \/ \E m \in DOMAIN ctls : Tick(m, FgEngine, Reliable)
    \/ \E m \in DOMAIN ctls : FadeTimerFires(m, Reliable)
    \/ \E m \in DOMAIN ctls : OverlayCbFires(m)
    \/ \E m \in DOMAIN ctls : DisplaySelected(m, Reliable)
    \/ GeometryTimerFires

SpecTwo == InitTwo /\ [][NextTwo]_vars

\* overlay_fade_steps as the configuration file can hold it: negative, zero,
\* one and two
StepCountInputs == {0 - 3, 0 - 1, 0, 1, 2}

\* One monitor dimmed by "Nap Now" for any step count of the configuration,
\* with either channel or both, software_dimming_level 0.01 or 0.5.
InitSteps ==
    /\ now = TimeStep
    /\ hw = [lum |-> <<UndimmedBrightness>>, written |-> <<None>>]
    /\ config \in [awake_mode : {FALSE}, inactivity_limit : {10},
                   overlay_fade_steps : StepCountInputs,
                   overlay_fade_time : FadeTimeInputs]
    /\ \E ehw \in BOOLEAN, esw \in BOOLEAN, sw \in {6, 300} :
          /\ ehw \/ esw
          /\ ctls = << NewController(
                          [MonitorCfg(0, 0, ehw, esw) EXCEPT
                              !.software_dimming_level = sw],
                          now, hw, TRUE) >>
    /\ win = InitWin(config.awake_mode)
    /\ tick_due = {}
    /\ clicks = 0
    /\ last_op = [op |-> "init", m |-> 0]
    /\ geom = NoGeom
    /\ hotkey = HotkeyIdle
    /\ sensor = [m \in DOMAIN ctls |-> NoSample]

NextSteps ==
    \/ NapNowClicked(Reliable)
    \/ \E m \in DOMAIN ctls : FadeTimerFires(m, Reliable)
    \/ \E m \in DOMAIN ctls : OverlayCbFires(m)

SpecSteps == InitSteps /\ [][NextSteps]_vars

\* check_timer.timeout of controller m while the pointer is off the display
\* and no window covers it: the activity sensor reports inactive
TickInactive(m) ==
    /\ m \in tick_due
    /\ tick_due' = tick_due \ {m}
    /\ LET st == CheckInactivity([c |-> ctls[m], hw |-> hw], config, now,
                                 [x |-> 1920, y |-> 0], FgNa,
                                 [read_ok |-> TRUE, write_ok |-> TRUE])
       IN  Handler([App EXCEPT !.ctls[m] = st.c, !.hw = st.hw],
                   "check_inactivity", m)

\* the monitor of the specification of an idle desk
LiveMonitors == {1}

\* An idle desk: one monitor, awake mode off, nobody at the controls.  The
\* timers of the event loop fire whenever they are due.
InitLive ==
    /\ now = TimeStep
    /\ hw = [lum |-> <<UndimmedBrightness>>, written |-> <<None>>]
    /\ config \in [awake_mode : {FALSE}, inactivity_limit : {10, 20},
                   overlay_fade_steps : {1, 2, 4},
                   overlay_fade_time : {5000}]
    /\ \E ehw \in BOOLEAN, esw \in BOOLEAN, sw \in {6, 300} :
          /\ ehw \/ esw
          /\ ctls = << NewController(
                          [MonitorCfg(0, 0, ehw, esw) EXCEPT
                              !.software_dimming_level = sw],
                          now, hw, TRUE) >>
    /\ win = InitWin(config.awake_mode)
    /\ tick_due = {}
    /\ clicks = 0
    /\ last_op = [op |-> "init", m |-> 0]
    /\ geom = NoGeom
    /\ hotkey = HotkeyIdle
    /\ sensor = [m \in DOMAIN ctls |-> NoSample]

NextLive ==
    \/ AdvanceEngine
    \/ \E m \in LiveMonitors : TickInactive(m)
    \/ \E m \in LiveMonitors : FadeTimerFires(m, Reliable)
    \/ \E m \in LiveMonitors : OverlayCbFires(m)

SpecLive ==
    /\ InitLive
    /\ [][NextLive]_vars
    /\ WF_vars(AdvanceEngine)
    /\ \A m \in LiveMonitors :
          /\ WF_vars(TickInactive(m))
          /\ WF_vars(FadeTimerFires(m, Reliable))
          /\ WF_vars(OverlayCbFires(m))

-----------------------------------------------------------------------------
(* Properties of the dimming engine *)

Monitors == DOMAIN ctls

\* the pending step callbacks of the overlay fade chains of controller c
StepCbs(c) == {cb \in BagToSet(c.overlay_cbs) : cb.kind = "step"}

\* number of pending step callbacks, counting equal ones
NumStepCbs(c) ==
    BagCardinality([cb \in StepCbs(c) |-> CopiesIn(cb, c.overlay_cbs)])

\* an identify() flash is in progress: its fade-out is pending or running
IdentifyInProgress(c) ==
    \E cb \in BagToSet(c.overlay_cbs) :
        cb.kind = "identify_out" \/ (cb.kind = "step" /\ cb.target = 0)

\* the last value passed to set_luminance on the display of controller c
LastWritten(c) == hw.written[c.monitorcontrol_monitor + 1]

\* C1: restore priority.  A monitor that is not dimmed (restored since the
\* last dim()) and has no identify flash in progress has overlay opacity 0, no
\* running hardware fade, and original_brightness as the last brightness
\* written: no step of an interrupted fade has been applied since the restore.
C1_RestorePriority ==
    \A m \in Monitors :
        LET c == ctls[m]
        IN  (~c.is_dimmed /\ ~IdentifyInProgress(c)) =>
                /\ c.overlay.opacity = 0
                /\ ~c.fade_timer_active
                /\ (c.monitorcontrol_monitor # None /\ LastWritten(c) # None)
                      => LastWritten(c) = c.original_brightness

\* C2: at most one animation per channel.  No controller has two pending step
\* callbacks of the overlay channel.  (The hardware channel has the single
\* fade_timer, replaced only by fade_hardware.)
C2_OneAnimationPerChannel ==
    \A m \in Monitors : NumStepCbs(ctls[m]) <= 1

\* C3: every dim() that takes effect with hardware dimming enabled and a
\* captured baseline starts a hardware fade from step 0.
C3_DimStartsHardwareFade ==
    [][\A m \in Monitors :
          (/\ ~ctls[m].is_dimmed
           /\ ctls'[m].is_dimmed
           /\ ctls[m].cfg.enable_hardware_dimming
           /\ ctls[m].original_brightness # None)
          => (ctls'[m].fade_timer_active /\ ctls'[m].current_fade_step = 0)]_vars


\* C4: dim() on a monitor that is already dimmed changes nothing: a "Nap Now"
\* leaves every dimmed controller as it was (no new fade, no changed field),
\* and the hardware too when every controller was dimmed.
C4_DimIdempotent ==
    [][last_op'.op = "nap_now" =>
          /\ \A m \in Monitors : ctls[m].is_dimmed => ctls'[m] = ctls[m]
          /\ (\A m \in Monitors : ctls[m].is_dimmed) => hw' = hw]_vars

\* a second "Nap Now" has run while the fades of the first are in flight
C4_Witness ==
    /\ last_op.op = "nap_now"
    /\ \E m \in Monitors :
          /\ ctls[m].is_dimmed
          /\ ctls[m].fade_timer_active
          /\ ctls[m].current_fade_step >= 1
          /\ NumStepCbs(ctls[m]) = 1

\* C5: awake-mode gate.  With awake_mode true no check_inactivity tick turns a
\* monitor from not dimmed to dimmed.
C5_AwakeGate ==
    [][(last_op'.op = "check_inactivity" /\ config.awake_mode) =>
          \A m \in Monitors : ~ctls[m].is_dimmed => ~ctls'[m].is_dimmed]_vars

\* a tick has run under awake mode on an idle monitor past the limit
C5_Witness ==
    /\ last_op.op = "check_inactivity"
    /\ config.awake_mode
    /\ \E m \in Monitors :
          /\ ~ctls[m].is_dimmed
          /\ now - ctls[m].last_active >= 2 * config.inactivity_limit * 1000

\* C6: awake mode forces Active.  A check_inactivity tick under awake_mode
\* leaves its monitor not dimmed, and a monitor that was dimmed or mid-dim is
\* restored immediately: fade timer stopped, overlay hidden at opacity 0.
C6_AwakeForcesActive ==
    [][(last_op'.op = "check_inactivity" /\ config.awake_mode) =>
          LET m == last_op'.m
          IN  /\ ~ctls'[m].is_dimmed
              /\ ctls[m].is_dimmed =>
                    /\ ~ctls'[m].fade_timer_active
                    /\ ~ctls'[m].overlay.visible
                    /\ ctls'[m].overlay.opacity = 0]_vars

\* a tick under awake mode has restored a monitor whose dim fade was running
C6_Witness ==
    /\ last_op.op = "check_inactivity"
    /\ config.awake_mode
    /\ \E m \in Monitors :
          /\ ~ctls[m].is_dimmed
          /\ ctls[m].restore_in_progress
          /\ LastWritten(ctls[m]) = ctls[m].original_brightness

-----------------------------------------------------------------------------
(* Properties of the pause coordinator *)

\* the user actions that can turn awake mode off
ManualOps == {"toggle_awake_mode", "awake_checkbox", "resume_now"}

\* the handlers that are neither user actions nor the pause expiry
BackgroundOps == {"advance", "check_inactivity", "_update_pause_status"}

\* C7: pause expiry.  pause_dimming(N), N >= 1, turns awake_mode on at once
\* and arms the expiry for N minutes later; no background handler changes
\* awake_mode or the expiry, and time does not pass a pending expiry; the
\* expiry handler runs exactly at the deadline, turns awake_mode off and
\* resets last_active of every controller to that moment; with awake_mode off
\* a tick on an idle monitor past the limit dims it.
C7_PauseExpiry ==
    [][/\ last_op'.op = "pause_dimming" =>
             /\ config'.awake_mode
             /\ win'.pause_timer_active
             /\ last_op'.m >= 1 =>
                   win'.pause_deadline = now + last_op'.m * MsPerMinute
       /\ (win.pause_timer_active /\ last_op'.op \in BackgroundOps) =>
             /\ config'.awake_mode = config.awake_mode
             /\ win'.pause_timer_active
             /\ win'.pause_deadline = win.pause_deadline
             /\ now' <= win.pause_deadline
       /\ last_op'.op = "_pause_timeout" =>
             /\ win.pause_timer_active
             /\ now = win.pause_deadline
             /\ ~config'.awake_mode
             /\ ~win'.pause_timer_active
             /\ \A m \in Monitors : ctls'[m].last_active = now
       /\ (last_op'.op = "check_inactivity" /\ ~config.awake_mode) =>
             LET m == last_op'.m
             IN  (/\ ~ctls[m].is_dimmed
                  /\ ctls'[m].last_active = ctls[m].last_active
                  /\ now - ctls[m].last_active >= config.inactivity_limit * 1000)
                 => ctls'[m].is_dimmed]_vars

\* a pause that was the only user action has expired a minute after it began
C7_Witness ==
    /\ last_op.op = "_pause_timeout"
    /\ win.has_pause_timer
    /\ clicks = 1
    /\ now = TimeStep + MsPerMinute
    /\ ~config.awake_mode
    /\ \A m \in Monitors : ctls[m].last_active = now

\* C8: pause-window invariant.  While the pause expiry timer is pending,
\* awake_mode is true.
C8_PauseImpliesAwake ==
    win.pause_timer_active => config.awake_mode

\* a pause is pending after another user action and ticks under the pause
C8_Witness ==
    /\ win.pause_timer_active
    /\ config.awake_mode
    /\ clicks >= 2
    /\ last_op.op = "check_inactivity"

\* C9: a manual switch-off cancels the pending expiry.  A user action that
\* turns awake_mode off while the pause timer is pending leaves the timer
\* inactive; the timer is armed by pause_dimming only and its handler runs only
\* while it is pending; so awake_mode turned on without a pause is turned off
\* by user actions only.
C9_ManualOffCancelsExpiry ==
    [][/\ (/\ win.pause_timer_active
           /\ last_op'.op \in ManualOps
           /\ ~config'.awake_mode) => ~win'.pause_timer_active
       /\ (~win.pause_timer_active /\ win'.pause_timer_active) =>
             last_op'.op = "pause_dimming"
       /\ last_op'.op = "_pause_timeout" => win.pause_timer_active
       /\ (config.awake_mode /\ ~win.pause_timer_active /\ ~config'.awake_mode)
             => last_op'.op \in ManualOps]_vars

\* after a pause the checkbox, as the second user action, has turned awake
\* mode off at the moment the expiry was due
C9_Witness ==
    /\ last_op.op = "awake_checkbox"
    /\ win.has_pause_timer
    /\ clicks = 2
    /\ ~config.awake_mode
    /\ ~win.pause_timer_active
    /\ now = TimeStep + MsPerMinute
    /\ \A m \in Monitors : ctls[m].last_active = now

\* the pause timer is pending and due: its handler and a user action can run
\* in either order
PauseDue == win.pause_timer_active /\ now >= win.pause_deadline

\* C10 as stated: from a pending pause, expiry followed by a manual toggle or
\* resume ends in the state that the manual action alone (which cancels the
\* expiry) ends in, and the action that comes second changes nothing.
C10_ExpiryToggleCommute ==
    PauseDue =>
        LET e == PauseTimerTimeout(App, now)
        IN  /\ ToggleAwakeMode(e, now) = e
            /\ ResumeNow(e, now) = e
            /\ ToggleAwakeMode(App, now).config.awake_mode
                  = ToggleAwakeMode(e, now).config.awake_mode
            /\ ResumeNow(App, now).config.awake_mode
                  = ResumeNow(e, now).config.awake_mode

\* C10, amended: expiry and a manual switch-off commute.  From a due pause the
\* expiry, resume_now, toggle_awake_mode and the checkbox each end in the same
\* state (awake_mode off, no pause timer); resume_now after the expiry changes
\* nothing; a toggle or a checkbox click after the expiry turns awake_mode
\* back on, with no pause timer.
C10_ExpiryResumeCommute ==
    PauseDue =>
        LET e == PauseTimerTimeout(App, now)
            et == ToggleAwakeMode(e, now)
            ec == AwakeCheckboxClicked(e, now)
        IN  /\ ~e.config.awake_mode
            /\ ~e.win.pause_timer_active
            /\ ResumeNow(App, now) = e
            /\ ToggleAwakeMode(App, now) = e
            /\ AwakeCheckboxClicked(App, now) = e
            /\ ResumeNow(e, now) = e
            /\ et.config.awake_mode /\ ~et.win.pause_timer_active
            /\ ec.config.awake_mode /\ ~ec.win.pause_timer_active

\* a pause has expired and the toggle after it has turned awake mode on
C10_Witness ==
    /\ last_op.op = "toggle_awake_mode"
    /\ clicks = 2
    /\ config.awake_mode
    /\ win.has_pause_timer
    /\ ~win.pause_timer_active
    /\ \A m \in Monitors : ctls[m].last_active = TimeStep + MsPerMinute

-----------------------------------------------------------------------------
(* Properties of shutdown, ticks and geometry *)

\* C11: shutdown restore.  When cleanup has run (the process ends there),
\* every controller is not dimmed, has no active hardware fade timer, has its
\* overlay hidden at opacity 0 and, when the baseline is known, has
\* original_brightness as the last brightness written.
C11_ShutdownRestore ==
    last_op.op = "cleanup" =>
        \A m \in Monitors :
            LET c == ctls[m]
            IN  /\ ~c.is_dimmed
                /\ ~c.fade_timer_active
                /\ ~c.overlay.visible
                /\ c.overlay.opacity = 0
                /\ c.original_brightness # None =>
                      /\ c.monitorcontrol_monitor # None
                      /\ LastWritten(c) = c.original_brightness

\* cleanup has run, with no user action before it, on a monitor whose idle
\* dim was mid-fade on both channels
C11_Witness ==
    /\ last_op.op = "cleanup"
    /\ clicks = 0
    /\ \E m \in Monitors :
          /\ ctls[m].restore_in_progress
          /\ ctls[m].current_fade_step >= 1
          /\ NumStepCbs(ctls[m]) = 1
          /\ LastWritten(ctls[m]) = ctls[m].original_brightness

\* the check_inactivity tick of the step found the activity sensor inactive:
\* awake_mode was off and last_active was not reset
InactiveTick(m) ==
    /\ last_op'.op = "check_inactivity"
    /\ last_op'.m = m
    /\ ~config.awake_mode
    /\ ctls'[m].last_active = ctls[m].last_active

\* an overlay fade of controller d towards target has started from opacity from
OverlayFadeStarted(d, from, target) ==
    LET step == TruncDiv(target - from, Max(1, config.overlay_fade_steps))
    IN  /\ d.overlay.visible
        /\ \/ d.overlay.opacity = target
           \/ \E cb \in StepCbs(d) :
                 /\ cb.target = target
                 /\ cb.step_opacity = step
                 /\ cb.current = from + step
                 /\ d.overlay.opacity = cb.current

\* C12: dim on idle.  An inactive tick on a not-dimmed monitor whose idle time
\* has reached inactivity_limit sets is_dimmed and starts, for each enabled
\* channel, an overlay fade from the current opacity to software_dimming_level
\* and a hardware fade of overlay_fade_steps steps from the brightness read (or
\* the baseline) to that brightness scaled by (1 - hardware_dimming_level/100);
\* below the limit the tick changes nothing but the sensor's cache stamps.
C12_DimOnIdle ==
    [][\A m \in Monitors :
          LET c == ctls[m]
              d == ctls'[m]
              start == hw.lum[c.monitorcontrol_monitor + 1]
          IN  (InactiveTick(m) /\ ~c.is_dimmed) =>
                IF now - c.last_active >= config.inactivity_limit * 1000
                THEN /\ d.is_dimmed
                     /\ c.cfg.enable_software_dimming =>
                           OverlayFadeStarted(d, c.overlay.opacity,
                                              c.cfg.software_dimming_level)
                     /\ (/\ c.cfg.enable_hardware_dimming
                         /\ c.original_brightness # None) =>
                           /\ d.fade_timer_active
                           /\ d.current_fade_step = 0
                           /\ d.fade_steps = config.overlay_fade_steps
                           /\ d.fade_start \in {start, c.original_brightness}
                           /\ d.fade_target =
                                 RoundDiv(d.fade_start
                                            * (100 - c.cfg.hardware_dimming_level),
                                          100)
                ELSE /\ [d EXCEPT !.last_cursor_check = c.last_cursor_check,
                                  !.last_window_check = c.last_window_check] = c
                     /\ hw' = hw]_vars

\* the step is the check_inactivity tick of controller m on the inputs cursor
\* and fg, with DDC/CI outcomes io
TickOn(m, cursor, fg, io) ==
    LET st == CheckInactivity([c |-> ctls[m], hw |-> hw], config, now,
                              cursor, fg, io)
    IN  /\ last_op'.op = "check_inactivity"
        /\ last_op'.m = m
        /\ ctls'[m] = st.c
        /\ hw' = st.hw

\* C13: activity wins over dimming.  A tick with awake_mode off on which the
\* activity sensor reports active resets last_active to now and restores a
\* dimmed or dimming monitor in that tick: is_dimmed false, hardware fade
\* timer stopped, overlay hidden at opacity 0.
C13_ActivityWins ==
    [][\A m \in Monitors, cursor \in CursorInputs, fg \in FgEngine,
          io \in [read_ok : Reliable, write_ok : Reliable] :
          (/\ TickOn(m, cursor, fg, io)
           /\ ~config.awake_mode
           /\ IsMonitorActive(ctls[m], now, cursor, fg).active) =>
              /\ ctls'[m].last_active = now
              /\ ctls[m].is_dimmed =>
                    /\ ~ctls'[m].is_dimmed
                    /\ ~ctls'[m].fade_timer_active
                    /\ ~ctls'[m].overlay.visible
                    /\ ctls'[m].overlay.opacity = 0]_vars

\* a tick with awake mode off has restored a monitor in the middle of the
\* fades of a "Nap Now", the only user action of the run
C13_Witness ==
    /\ last_op.op = "check_inactivity"
    /\ clicks = 1
    /\ ~config.awake_mode
    /\ LET c == ctls[last_op.m]
       IN  /\ ~c.is_dimmed
           /\ c.last_active = now
           /\ c.restore_in_progress
           /\ NumStepCbs(c) = 1
           /\ ~c.overlay.visible

\* the ddc_index of controller c is outside the hardware enumeration
DdcOutOfRange(c) == ~(0 <= c.ddc_index /\ c.ddc_index < Len(hw.lum))

\* C14: index safety at start.  A controller whose ddc_index is outside the
\* hardware enumeration has no hardware handle and no baseline, never starts
\* a hardware fade, no brightness is ever written, and with software dimming
\* enabled it dims and restores through the overlay: dimmed, the overlay is
\* shown at software_dimming_level; not dimmed, it is hidden at opacity 0.
C14_IndexSafety ==
    \A m \in Monitors :
        LET c == ctls[m]
        IN  DdcOutOfRange(c) =>
              /\ c.monitorcontrol_monitor = None
              /\ c.original_brightness = None
              /\ ~c.fade_timer_active
              /\ ~c.restore_in_progress
              /\ \A i \in DOMAIN hw.written :
                    hw.written[i] = None /\ hw.lum[i] = DefaultBrightness
              /\ c.cfg.enable_software_dimming =>
                    IF c.is_dimmed
                    THEN c.overlay.visible
                         /\ c.overlay.opacity = c.cfg.software_dimming_level
                    ELSE ~c.overlay.visible /\ c.overlay.opacity = 0

\* an idle tick has dimmed the monitor with ddc_index 99 through its overlay
\* while the other monitor, restored by activity, is not dimmed
C14_Witness ==
    /\ last_op.op = "check_inactivity"
    /\ \E m \in Monitors :
          /\ ctls[m].ddc_index = 99
          /\ ctls[m].is_dimmed
          /\ ctls[m].overlay.visible
    /\ \E m \in Monitors :
          /\ ~ctls[m].is_dimmed
          /\ ctls[m].last_active > TimeStep
          /\ ~config.awake_mode

\* the rectangle that controller c should hold after a refresh against the
\* enumeration the last handler saw
ResolvedRect(c) == GeometryOf(geom.screens, c.display_index)

\* C15: set_indices never raises.  After the set_indices call of a display
\* selection the call has completed normally, an out-of-range ddc_index has
\* left handle and baseline None, and an out-of-range display_index has set
\* the rectangle to the default (0, 0, 800, 600).
C15_SetIndicesNeverRaises ==
    last_op.op = "on_display_selected" =>
        LET c == ctls[last_op.m]
        IN  /\ ~geom.calls[1].raised
            /\ DdcOutOfRange(c) =>
                  /\ c.monitorcontrol_monitor = None
                  /\ c.original_brightness = None
            /\ c.display_index >= Len(geom.screens) =>
                  StoredRect(c) = [left |-> 0, top |-> 0,
                                   width |-> DefaultWidth,
                                   height |-> DefaultHeight]

\* C16: geometry refresh.  Every refresh_geometry call with an unchanged
\* rectangle made no overlay bounds update and no log entry; every call with
\* a changed rectangle made exactly one bounds update and one log entry,
\* returned normally and left the stored rectangle equal to the new one.
C16_GeometryRefresh ==
    \A i \in DOMAIN geom.calls :
        LET call == geom.calls[i]
            c == ctls[call.m + 1]
        IN  /\ ~call.raised
            /\ StoredRect(c) = ResolvedRect(c)
            /\ c.overlay.rect = StoredRect(c)
            /\ IF call.changed
               THEN call.bounds_updates = 1 /\ call.log_entries = 1
               ELSE call.bounds_updates = 0 /\ call.log_entries = 0

\* C17: per-monitor isolation in the geometry watcher.  After a
\* refresh_all_geometries pass every controller holds the rectangle of its
\* display in the enumeration the pass saw.
C17_GeometryIsolation ==
    last_op.op = "refresh_all_geometries" =>
        \A m \in Monitors : StoredRect(ctls[m]) = ResolvedRect(ctls[m])

\* controller c without the brightness values of its hardware fade
ControlState(c) == [c EXCEPT !.fade_start = 0, !.fade_target = 0]

\* C18: hardware failure isolation.  In every reachable state, a failing
\* get_luminance or set_luminance changes nothing but brightness values: dim(),
\* a hardware fade step and a restore leave the controller (is_dimmed, overlay
\* and its fade, fade timer, step counter, restore_in_progress) as the same
\* call with working hardware does; the step that exhausts the fade stops the
\* timer and clears restore_in_progress; and with restore_in_progress clear a
\* dim() starts a hardware fade whether or not the read succeeds.
C18_HardwareFailureIsolation ==
    \A m \in Monitors, ok \in Unreliable :
        LET st == [c |-> ctls[m], hw |-> hw]
            c == ctls[m]
        IN  /\ ControlState(Dim(st, config, ok).c)
                  = ControlState(Dim(st, config, TRUE).c)
            /\ RestoreDim(st, ok).c = RestoreDim(st, TRUE).c
            /\ c.fade_timer_active =>
                  /\ DoFade(st, ok).c = DoFade(st, TRUE).c
                  /\ c.current_fade_step + 1 >= c.fade_steps =>
                        /\ ~DoFade(st, ok).c.fade_timer_active
                        /\ ~DoFade(st, ok).c.restore_in_progress
            /\ (/\ ~c.is_dimmed
                /\ ~c.restore_in_progress
                /\ c.cfg.enable_hardware_dimming
                /\ c.original_brightness # None) =>
                  /\ Dim(st, config, ok).c.fade_timer_active
                  /\ Dim(st, config, ok).c.current_fade_step = 0

\* a dim whose last hardware write failed has finished on both channels: the
\* fade ran to its last step and cleared restore_in_progress, the overlay is
\* at its target, the display is not at the value written
C18_Witness ==
    \E m \in Monitors :
        LET c == ctls[m]
        IN  /\ c.is_dimmed
            /\ c.current_fade_step = c.fade_steps
            /\ c.fade_steps = config.overlay_fade_steps
            /\ ~c.fade_timer_active
            /\ ~c.restore_in_progress
            /\ LastWritten(c) = c.fade_target
            /\ hw.lum[c.monitorcontrol_monitor + 1] # LastWritten(c)
            /\ c.overlay.visible
            /\ c.overlay.opacity = c.cfg.software_dimming_level

\* C19: single-writer discipline.  The hotkey callback never runs interleaved
\* with a tick, pause_dimming or a pause expiry: whenever the keyboard thread
\* is outside the callback, the state is one that handlers run one after
\* another can leave, of which every one has awake_mode true while a pause
\* timer is pending and the awake checkbox equal to awake_mode.
C19_SingleWriter ==
    hotkey.pc = "idle" =>
        /\ win.pause_timer_active => config.awake_mode
        /\ win.awake_checkbox = config.awake_mode

\* a hardware or an overlay fade of controller c is in flight
FadeInFlight(c) == c.fade_timer_active \/ NumStepCbs(c) >= 1

\* controller c without its display index, rectangle and overlay bounds
WithoutGeometry(c) ==
    [c EXCEPT !.display_index = 0, !.cfg.display_index = 0,
              !.left = 0, !.top = 0, !.width = 0, !.height = 0,
              !.overlay.rect = [left |-> 0, top |-> 0, width |-> 0, height |-> 0]]

\* C20: a geometry refresh or a display selection (set_indices) that arrives
\* while a fade is in flight changes only the display index, the stored
\* rectangle and the overlay bounds of the controller: the fade's start,
\* target, step count and step counter, the pending overlay steps, the handle,
\* the baseline and the display's brightness are as before.
C20_GeometryFrame ==
    [][last_op'.op \in {"on_display_selected", "refresh_all_geometries"} =>
          \A m \in Monitors :
              FadeInFlight(ctls[m]) =>
                  /\ WithoutGeometry(ctls'[m]) = WithoutGeometry(ctls[m])
                  /\ hw' = hw]_vars

-----------------------------------------------------------------------------
(* Properties of restore and of the fades *)

\* controller c is restored: not dimmed, overlay hidden at opacity 0, no
\* running hardware fade, the display at the baseline where both are known
Restored(c, h) ==
    /\ ~c.is_dimmed
    /\ ~c.overlay.visible
    /\ c.overlay.opacity = 0
    /\ ~c.fade_timer_active
    /\ (c.monitorcontrol_monitor # None /\ c.original_brightness # None) =>
          h.lum[c.monitorcontrol_monitor + 1] = c.original_brightness

\* C21: restore_dim() is idempotent.  "Apply" calls restore_dim() on every
\* controller in whatever state it is; it leaves each one not dimmed, with the
\* overlay hidden at opacity 0 and the hardware fade timer stopped; one more
\* restore_dim() would leave the controller and the display exactly as they
\* are; and on a monitor that was already restored it changes nothing (but
\* last_active, which "Apply" itself resets).
C21_RestoreIdempotent ==
    [][last_op'.op = "on_apply_clicked" =>
          \A m \in Monitors :
              LET once == [c |-> ctls'[m], hw |-> hw']
                  twice == RestoreDim(once, TRUE)
              IN  /\ ~once.c.is_dimmed
                  /\ ~once.c.overlay.visible
                  /\ once.c.overlay.opacity = 0
                  /\ ~once.c.fade_timer_active
                  /\ twice = once
                  /\ Restored(ctls[m], hw) =>
                        /\ ctls'[m] = [ctls[m] EXCEPT !.last_active = now]
                        /\ hw'.lum = hw.lum]_vars

\* "Apply" has restored a monitor in the middle of the hardware fade of a
\* "Nap Now"
C21_Witness ==
    /\ last_op.op = "on_apply_clicked"
    /\ clicks = 2
    /\ \E m \in Monitors :
          /\ ctls[m].restore_in_progress
          /\ ctls[m].current_fade_step < ctls[m].fade_steps
          /\ Restored(ctls[m], hw)

\* C22: restore_in_progress is the fade-in-flight guard: it is true exactly
\* when the hardware fade timer of the controller is active.
C22_FadeGuard ==
    \A m \in Monitors :
        ctls[m].restore_in_progress <=> ctls[m].fade_timer_active

\* the overlay target of dim() on controller c
DimTarget(c) == Max(0, Min(OpScale, c.cfg.software_dimming_level))

\* the step runs fade_overlay(target) on controller m, and the fade makes its
\* last step at once: no step callback is left pending for it
FadeEndsAtStart(m, target) ==
    /\ \/ /\ last_op'.op = "nap_now"
          /\ ~ctls[m].is_dimmed
          /\ ctls[m].cfg.enable_software_dimming
          /\ target = DimTarget(ctls[m])
       \/ /\ last_op' = [op |-> "identify", m |-> m]
          /\ target = IdentifyOpacity
       \/ /\ last_op' = [op |-> "identify_out", m |-> m]
          /\ target = 0
    /\ NumStepCbs(ctls'[m]) = NumStepCbs(ctls[m])

\* the step runs the pending step callback cb of controller m, and it is the
\* last step of its fade
FadeEndsAtStep(m, cb) ==
    /\ last_op' = [op |-> "step", m |-> m]
    /\ ctls'[m] = RunOverlayCb(ctls[m], config, cb)
    /\ NumStepCbs(ctls'[m]) < NumStepCbs(ctls[m])

\* C23: an overlay fade ends exactly on its target: the opacity set by the
\* last step of every fade_overlay(target) is target.
C23_OverlayExactTarget ==
    [][\A m \in Monitors :
          /\ \A target \in {DimTarget(ctls[m]), IdentifyOpacity, 0} :
                FadeEndsAtStart(m, target) =>
                    ctls'[m].overlay.opacity = target
          /\ \A cb \in StepCbs(ctls[m]) :
                FadeEndsAtStep(m, cb) =>
                    ctls'[m].overlay.opacity = cb.target]_vars

-----------------------------------------------------------------------------
(* Properties of the hardware fade *)

\* the brightness last written to the display of controller c, after the step
LastWrittenNext(c) == hw'.written[c.monitorcontrol_monitor + 1]

\* v lies between a and b
Between(v, a, b) == Min(a, b) <= v /\ v <= Max(a, b)

\* C24: hardware fade convergence.  Every timeout of the fade timer writes
\* one brightness value, the k-th of the fade, which lies between the start
\* and the target of the fade and is no farther from the target than the
\* value before it; the timer runs on until the value of step number
\* fade_steps, which is the target itself, and stops with it.  From 100 to 0
\* in 10 steps the values go strictly down and the tenth is 0.
C24_HardwareFadeConvergence ==
    [][\A m \in Monitors :
          last_op' = [op |-> "_do_fade", m |-> m] =>
              LET c == ctls[m]
                  d == ctls'[m]
                  k == d.current_fade_step
                  prev == IF c.current_fade_step = 0 THEN c.fade_start
                          ELSE LastWritten(c)
                  val == LastWrittenNext(c)
              IN  /\ k = c.current_fade_step + 1
                  /\ k <= c.fade_steps
                  /\ Between(val, c.fade_start, c.fade_target)
                  /\ Abs(c.fade_target - val) <= Abs(c.fade_target - prev)
                  /\ d.fade_timer_active <=> k < c.fade_steps
                  /\ ~d.fade_timer_active => val = c.fade_target
                  /\ (c.fade_start = 100 /\ c.fade_target = 0
                        /\ c.fade_steps = 10) =>
                         /\ val < prev
                         /\ k = 10 => val = 0]_vars

\* the fade from 100 to 0 in 10 steps has run to its end
C24_Witness ==
    /\ last_op.op = "_do_fade"
    /\ LET c == ctls[last_op.m]
       IN  /\ c.fade_start = 100
           /\ c.fade_target = 0
           /\ c.fade_steps = 10
           /\ c.current_fade_step = 10
           /\ ~c.fade_timer_active
           /\ LastWritten(c) = 0
           /\ hw.lum[c.monitorcontrol_monitor + 1] = 0

\* hardware_dimming_level of controller c clamped to [0, 100]
DimLevel(c) == Max(0, Min(100, c.cfg.hardware_dimming_level))

\* the step starts a hardware fade on controller m
HardwareFadeStarts(m) ==
    /\ ~ctls[m].restore_in_progress
    /\ ctls'[m].restore_in_progress
    /\ ctls'[m].fade_timer_active
    /\ ctls'[m].current_fade_step = 0

-----------------------------------------------------------------------------
(* Properties of the overlay fade *)

\* C26: opacity clamping.  Whatever software_dimming_level is configured, the
\* target of the overlay fade of dim() is the level clamped into [0, 1] (the
\* other fades go to the identify opacity and to 0), and every opacity set on
\* the overlay, or handed on to the next step of a fade, lies in [0, 1].
C26_OpacityClamp ==
    \A m \in Monitors :
        LET c == ctls[m]
            level == c.cfg.software_dimming_level
            clamped == IF level < 0 THEN 0
                       ELSE IF level > OpScale THEN OpScale ELSE level
        IN  /\ c.overlay.opacity \in 0 .. OpScale
            /\ \A cb \in StepCbs(c) :
                  /\ cb.target \in {clamped, IdentifyOpacity, 0}
                  /\ cb.current \in 0 .. OpScale

\* the dim fade of a monitor configured with software_dimming_level 1.5 has
\* reached opacity 1 in more than one step
C26_Witness ==
    /\ last_op.op = "step"
    /\ LET c == ctls[last_op.m]
       IN  /\ c.is_dimmed
           /\ c.cfg.software_dimming_level > OpScale
           /\ c.overlay.visible
           /\ c.overlay.opacity = OpScale
           /\ StepCbs(c) = {}

\* the step calls fade_overlay(target) on controller m
FadeOverlayCalled(m, target) ==
    \/ /\ last_op'.op = "nap_now"
       /\ ~ctls[m].is_dimmed
       /\ ctls[m].cfg.enable_software_dimming
       /\ target = DimTarget(ctls[m])
    \/ /\ last_op' = [op |-> "identify", m |-> m]
       /\ target = IdentifyOpacity
    \/ /\ last_op' = [op |-> "identify_out", m |-> m]
       /\ target = 0

\* the step count of a fade toward normal: min(configured steps, 3)
WakeSteps == Min(config.overlay_fade_steps, 3)

\* the duration in ms of a fade toward normal, times 100:
\* max(0.01 s, 5% of overlay_fade_time)
WakeTime100 == Max(10 * 100, 5 * config.overlay_fade_time)

\* C27: fast wake, slow sleep.  An overlay fade to a target below the current
\* opacity is made of min(overlay_fade_steps, 3) equal steps that take
\* max(0.01 s, 5% of overlay_fade_time) together; an overlay fade to a higher
\* target and the hardware fade of dim() are made of overlay_fade_steps steps
\* that take overlay_fade_time together; and fade_hardware(down=False) sets up
\* min(overlay_fade_steps, 3) steps over max(0.01 s, 5% of overlay_fade_time).
C27_FastWakeSlowSleep ==
    [][\A m \in Monitors :
          LET c == ctls[m]
              d == ctls'[m]
              from == c.overlay.opacity
              up == FadeHardware([c |-> [c EXCEPT !.restore_in_progress = FALSE],
                                  hw |-> hw], config, FALSE, TRUE).c
          IN  /\ \A target \in {DimTarget(c), IdentifyOpacity, 0} :
                    (/\ FadeOverlayCalled(m, target)
                     /\ NumStepCbs(d) > NumStepCbs(c)) =>
                        LET steps == IF target < from THEN WakeSteps
                                     ELSE config.overlay_fade_steps
                            time100 == IF target < from THEN WakeTime100
                                       ELSE 100 * config.overlay_fade_time
                        IN  \E cb \in StepCbs(d) :
                               /\ cb.target = target
                               /\ cb.current = d.overlay.opacity
                               /\ cb.step_opacity = TruncDiv(target - from, steps)
                               /\ cb.current = from + cb.step_opacity
                               /\ cb.delay = Max(1, time100 \div (100 * steps))
              /\ HardwareFadeStarts(m) =>
                    /\ d.fade_steps = config.overlay_fade_steps
                    /\ d.fade_interval =
                          config.overlay_fade_time \div config.overlay_fade_steps
              /\ up.fade_steps = WakeSteps
              /\ up.fade_interval = WakeTime100 \div (100 * WakeSteps)]_vars

\* the fade-out of an identify flash has started with 4 steps configured: it
\* goes from 0.6 to 0 in 3 steps of 0.2
C27_Witness ==
    /\ last_op.op = "identify_out"
    /\ config.overlay_fade_steps = 4
    /\ LET c == ctls[last_op.m]
       IN  \E cb \in StepCbs(c) :
              /\ cb.target = 0
              /\ cb.step_opacity = 0 - (IdentifyOpacity \div 3)
              /\ c.overlay.opacity = IdentifyOpacity + cb.step_opacity

-----------------------------------------------------------------------------
(* Properties of the activity sensor *)

\* C28: cursor sampling cadence.  A call of is_monitor_active made within
\* 500 ms of the last read of the pointer position does not read it again,
\* and its cursor check gives what that last read gave.
C28_CursorCadence ==
    [][\A m \in Monitors :
          (/\ last_op' = [op |-> "is_monitor_active", m |-> m]
           /\ sensor[m].sample_t # None
           /\ now - sensor[m].sample_t <= CursorCacheMs) =>
              /\ ~sensor'[m].sampled
              /\ sensor'[m].returned = sensor[m].result]_vars

\* position p lies in rectangle r, whose right and bottom edges are not part
\* of it
HalfOpen(r, p) ==
    /\ r.left <= p.x /\ p.x < r.left + r.width
    /\ r.top <= p.y /\ p.y < r.top + r.height

\* rectangles r and q have no point in common
Disjoint(r, q) ==
    \/ r.left + r.width <= q.left
    \/ q.left + q.width <= r.left
    \/ r.top + r.height <= q.top
    \/ q.top + q.height <= r.top

\* C29: cursor containment is half-open.  A call of is_monitor_active that
\* reads the pointer position reports the cursor on the monitor exactly when
\* left <= x < left + width and top <= y < top + height; so of two monitors
\* with disjoint rectangles at most one has taken a given position for its
\* own.
C29_HalfOpenContainment ==
    [][/\ \A m \in Monitors :
             (/\ last_op' = [op |-> "is_monitor_active", m |-> m]
              /\ sensor'[m].sampled) =>
                 /\ sensor'[m].rect = StoredRect(ctls[m])
                 /\ sensor'[m].returned
                       <=> HalfOpen(StoredRect(ctls[m]), sensor'[m].cursor)
       /\ \A m \in Monitors, n \in Monitors :
             (/\ m # n
              /\ sensor'[m].sample_t # None
              /\ sensor'[n].sample_t # None
              /\ sensor'[m].cursor = sensor'[n].cursor
              /\ Disjoint(sensor'[m].rect, sensor'[n].rect)) =>
                 ~(sensor'[m].result /\ sensor'[n].result)]_vars

\* the pointer on the common edge x = 1920 of two displays side by side has
\* been read by both sensors: it is on the right one and not on the left one
C29_Witness ==
    /\ last_op.op = "is_monitor_active"
    /\ sensor[1].sample_t # None
    /\ sensor[2].sample_t # None
    /\ sensor[1].cursor = [x |-> 1920, y |-> 0]
    /\ sensor[2].cursor = [x |-> 1920, y |-> 0]
    /\ sensor[1].rect = [left |-> 0, top |-> 0, width |-> 1920, height |-> 1080]
    /\ sensor[2].rect.left = 1920
    /\ ~sensor[1].result
    /\ sensor[2].result

-----------------------------------------------------------------------------
(* Properties of the baseline *)

\* C30: the baseline is never a dimmed value.  original_brightness of a
\* controller is None or the brightness its display has while not dimmed.
C30_BaselineNeverDimmed ==
    \A m \in Monitors :
        ctls[m].original_brightness \in {None, UndimmedBrightness}

-----------------------------------------------------------------------------
(* Properties of the channel switches *)

\* C31: disabling hardware dimming is final for the current dim.  While
\* hardware dimming is disabled on a monitor with a known baseline whose
\* display the program has written to, the display is at original_brightness:
\* disable_hw_dimming() wrote it, and no later fade step writes another value.
C31_DisableHwFinal ==
    \A m \in Monitors :
        LET c == ctls[m]
        IN  (/\ ~c.cfg.enable_hardware_dimming
             /\ c.original_brightness # None
             /\ c.monitorcontrol_monitor # None
             /\ LastWritten(c) # None) =>
                /\ LastWritten(c) = c.original_brightness
                /\ hw.lum[c.monitorcontrol_monitor + 1] = c.original_brightness

-----------------------------------------------------------------------------
(* Properties of the idle clock *)

\* C32: no early dim after a reset.  The step that turns awake_mode off, and
\* "Apply", and a tick on which the sensor reports activity, set last_active
\* of the monitor to the time of that step; last_active never goes back; and
\* a tick dims a monitor only when inactivity_limit seconds have passed since
\* last_active.  So no tick dims a monitor before inactivity_limit seconds
\* have passed since the last of those resets.
C32_NoEarlyDim ==
    [][\A m \in Monitors :
          /\ (config.awake_mode /\ ~config'.awake_mode) =>
                ctls'[m].last_active = now'
          /\ last_op'.op = "on_apply_clicked" => ctls'[m].last_active = now'
          /\ \A cursor \in CursorInputs, fg \in FgEngine,
                io \in [read_ok : Reliable, write_ok : Reliable] :
                (/\ TickOn(m, cursor, fg, io)
                 /\ ~config.awake_mode
                 /\ IsMonitorActive(ctls[m], now, cursor, fg).active) =>
                    ctls'[m].last_active = now'
          /\ ctls'[m].last_active >= ctls[m].last_active
          /\ (/\ last_op' = [op |-> "check_inactivity", m |-> m]
              /\ ~ctls[m].is_dimmed
              /\ ctls'[m].is_dimmed) =>
                 now - ctls[m].last_active >= config.inactivity_limit * 1000]_vars

-----------------------------------------------------------------------------
(* Liveness of the dimming engine *)

\* the fades of dim() on controller c have ended, each channel at its target
DimSettled(c) ==
    /\ c.is_dimmed
    /\ ~c.fade_timer_active
    /\ StepCbs(c) = {}
    /\ c.cfg.enable_hardware_dimming =>
          /\ c.current_fade_step = c.fade_steps
          /\ hw.lum[c.monitorcontrol_monitor + 1] = c.fade_target
    /\ c.cfg.enable_software_dimming =>
          /\ c.overlay.visible
          /\ c.overlay.opacity = DimTarget(c)

\* C33: dimming eventually happens.  With awake mode off and the sensor
\* reporting inactive at every tick, the monitor is dimmed by the first tick
\* at or after last_active + inactivity_limit, and from some moment on it is
\* dimmed with every fade stopped and every channel at its target.
C33_EventualDimming ==
    /\ [][\A m \in LiveMonitors :
             (/\ last_op' = [op |-> "check_inactivity", m |-> m]
              /\ now - ctls[m].last_active >= config.inactivity_limit * 1000) =>
                 ctls'[m].is_dimmed]_vars
    /\ \A m \in LiveMonitors : <>[]DimSettled(ctls[m])


\* C34: quiescent when not dimmed.  In every reachable state a monitor that
\* is not dimmed and has no identify flash in progress has its overlay hidden
\* and no active hardware fade timer.
C34_QuiescentUndimmed ==
    \A m \in Monitors :
        LET c == ctls[m]
        IN  (~c.is_dimmed /\ ~IdentifyInProgress(c)) =>
                (~c.overlay.visible /\ ~c.fade_timer_active)

\* a monitor restored while its overlay fade was in flight: a step of the
\* interrupted fade has since set the opacity, and the overlay is still hidden
C34_Witness ==
    \E m \in Monitors :
        /\ last_op = [op |-> "step", m |-> m]
        /\ ~ctls[m].is_dimmed
        /\ ~IdentifyInProgress(ctls[m])
        /\ ctls[m].overlay.opacity > 0
        /\ ~ctls[m].overlay.visible


\* C35: identify() does not disturb dimming.  When the last callback of an
\* identify flash has run (the flash and its fade-out are over, nothing is
\* pending on the overlay), a monitor that is dimmed with software dimming
\* enabled has its overlay shown at the software dimming level.
C35_IdentifyKeepsDim ==
    [][\A m \in Monitors :
          (/\ IdentifyInProgress(ctls[m])
           /\ last_op'.m = m
           /\ last_op'.op \in {"step", "identify_out"}
           /\ ctls'[m].overlay_cbs = EmptyBag
           /\ ctls'[m].is_dimmed
           /\ ctls'[m].cfg.enable_software_dimming) =>
              /\ ctls'[m].overlay.visible
              /\ ctls'[m].overlay.opacity = DimTarget(ctls'[m])]_vars


\* C36: a manual nap under awake mode is short-lived.  nap_now() leaves every
\* monitor dimmed, whatever awake_mode is.  The next tick of a dimmed monitor
\* restores it when awake_mode is on or the sensor reports activity, and
\* leaves it dimmed, its fades untouched, when awake_mode is off and the
\* sensor reports no activity.
C36_NapShortLived ==
    [][/\ last_op'.op = "nap_now" => \A m \in Monitors : ctls'[m].is_dimmed
       /\ \A m \in Monitors, cursor \in CursorInputs, fg \in FgEngine,
             io \in [read_ok : Reliable, write_ok : Reliable] :
             (TickOn(m, cursor, fg, io) /\ ctls[m].is_dimmed) =>
                IF config.awake_mode
                   \/ IsMonitorActive(ctls[m], now, cursor, fg).active
                THEN Restored(ctls'[m], hw')
                ELSE /\ ctls'[m].is_dimmed
                     /\ ctls'[m].overlay = ctls[m].overlay
                     /\ ctls'[m].overlay_cbs = ctls[m].overlay_cbs
                     /\ ctls'[m].fade_timer_active = ctls[m].fade_timer_active
                     /\ hw' = hw]_vars

\* awake mode was turned on and "Nap Now" clicked, the fades of the nap
\* started, and the tick that followed restored the monitor
C36_Witness ==
    \E m \in Monitors :
        /\ last_op = [op |-> "check_inactivity", m |-> m]
        /\ config.awake_mode
        /\ clicks = 2
        /\ Restored(ctls[m], hw)
        /\ \/ \E cb \in StepCbs(ctls[m]) : cb.target = DimTarget(ctls[m])
           \/ ctls[m].fade_steps > 0


\* C37: at most one pause is pending.  At most one pause timer is running.
\* pause_dimming(N) leaves exactly one running, the new one, due max(1, N)
\* minutes after the call, with awake_mode on; the deadline of the running
\* timer changes only by another pause_dimming; and the expiry handler runs
\* for the timer of the latest pause, at its deadline, and clears awake_mode.
C37_OnePausePending ==
    [][/\ Cardinality(PendingPauseTimers(win')) <= 1
       /\ last_op'.op = "pause_dimming" =>
             /\ PendingPauseTimers(win') =
                   {[cur |-> TRUE,
                     deadline |-> now + Max(1, last_op'.m) * MsPerMinute]}
             /\ config'.awake_mode
       /\ (/\ win.pause_timer_active /\ win'.pause_timer_active
           /\ last_op'.op # "pause_dimming") =>
              win'.pause_deadline = win.pause_deadline
       /\ last_op'.op = "_pause_timeout" =>
             /\ win.pause_timer_active
             /\ now = win.pause_deadline
             /\ ~config'.awake_mode
             /\ PendingPauseTimers(win') = {}]_vars

\* the expiry handler has run after a pause was replaced by a later one: the
\* deadline of the earlier pause passed without an expiry
C37_Witness ==
    /\ last_op.op = "_pause_timeout"
    /\ ~config.awake_mode
    /\ \E tm \in win.old_pause_timers : tm.deadline > 0 /\ tm.deadline < now


\* the handlers that act on one controller, recorded in last_op.m
SingleOps ==
    {"check_inactivity", "_do_fade", "step", "identify_out",
     "on_display_selected"}

\* C38: monitors are independent.  A tick (with the dim() or restore it
\* makes), a hardware fade step, an overlay callback or a display selection
\* (set_indices) of one controller leaves every other controller as it is; and
\* a geometry refresh leaves each controller as it is or as its own
\* refresh_geometry() leaves it.
C38_MonitorsIndependent ==
    [][/\ \A m \in Monitors :
             (last_op'.m = m /\ last_op'.op \in SingleOps) =>
                 \A k \in Monitors \ {m} : ctls'[k] = ctls[k]
       /\ last_op'.op = "refresh_all_geometries" =>
             \A k \in Monitors :
                 \/ ctls'[k] = ctls[k]
                 \/ ctls'[k] = RefreshGeometry(ctls[k], geom'.screens).c]_vars

\* one monitor is in the middle of the fades of its dim() while the other,
\* on which the sensor reported activity at its tick, is not dimmed
C38_Witness ==
    \E m \in Monitors, k \in Monitors :
        /\ last_op = [op |-> "check_inactivity", m |-> m]
        /\ k # m
        /\ ctls[k].is_dimmed
        /\ FadeInFlight(ctls[k])
        /\ ~ctls[m].is_dimmed
        /\ ctls[m].last_active = now
        /\ now > TimeStep


\* C39: step-count normalisation.  For every configured overlay_fade_steps,
\* zero and negative ones included, a hardware fade runs with at least one
\* step and never beyond its step count; with a step count of zero or less
\* both fades are fades of one step; and a dimmed monitor whose fades have
\* stopped has each enabled channel at its target.
C39_StepNormalisation ==
    \A m \in Monitors :
        LET c == ctls[m]
            d == c.monitorcontrol_monitor
        IN  /\ c.restore_in_progress =>
                  /\ c.fade_steps >= 1
                  /\ c.fade_steps >= config.overlay_fade_steps
                  /\ c.current_fade_step < c.fade_steps
            /\ (c.is_dimmed /\ config.overlay_fade_steps <= 0) =>
                  /\ StepCbs(c) = {}
                  /\ c.cfg.enable_hardware_dimming => c.fade_steps = 1
            /\ (c.is_dimmed /\ ~FadeInFlight(c)) =>
                  /\ c.cfg.enable_hardware_dimming =>
                        /\ hw.lum[d + 1] = c.fade_target
                        /\ c.fade_target =
                              RoundDiv(c.fade_start * (100 - DimLevel(c)), 100)
                  /\ c.cfg.enable_software_dimming =>
                        /\ c.overlay.visible
                        /\ c.overlay.opacity = DimTarget(c)

====
